---- MODULE Spec2Model ----
(***************************************************************************)
(* Model of the query_histogram extension (src/src/queryhist.c,            *)
(* src/src/queryhist.h and the SQL-callable wrappers): the shared segment  *)
(* (segment_info_t), the list of tracked databases, the histograms, the    *)
(* segment LWLock and the per-backend lookup cache.                        *)
(*                                                                         *)
(* Durations are integers in milliseconds (the code keeps seconds in a     *)
(* float and multiplies by 1000 in query_bin); time_bins accumulate them.  *)
(* An LWLock critical section is one step unless the code touches shared   *)
(* data that the lock it holds does not protect; those accesses are split  *)
(* into their loads and stores.                                            *)
(***************************************************************************)
EXTENDS Integers, FiniteSets, Sequences, TLC

\* ---------------------------------------------------------------- bounds
NumProcs == 2          \* backends (process slots)
MaxOid == 3            \* database OIDs are 1..MaxOid
MaxDatabases == 3      \* largest query_histogram.max_databases at startup
HIST_BINS_MAX == 3     \* queryhist.h has 1000; the arrays hold HIST_BINS_MAX+1 bins
INT_MAX == 7           \* limits.h has 2147483647 (here 2^3 - 1)
MaxDuration == 2       \* durations are 1..MaxDuration ms
MaxStep == 2           \* bin widths are 1..MaxStep ms
MaxClock == 2          \* GetCurrentTimestamp() returns 1..MaxClock
MaxCalls == 2          \* calls per run of the specifications Spec and SpecStatic
MaxRecords == 3        \* record operations per run of the specification SpecWriters
MaxQueryDuration == 7  \* longest duration recorded in the specification SpecQuery

\* ------------------------------------------------------ program constants
DB_NOT_FOUND == -1
InvalidOid == 0
HISTOGRAM_LINEAR == 0
HISTOGRAM_LOG == 1
MaxSamplePct == 100
ClobberedTimestamp == -2   \* a last_reset whose first 4 bytes were overwritten
DoubleFractionBits == 52   \* the fraction bits of a double (coeff)
NullDatum == -1            \* bin_to of the last row: nulls[1] = TRUE
NULL == "NULL"             \* segment_info before histogram_shmem_startup
Attached == "segment_info_t"   \* segment_info once ShmemInitStruct returned
ERRCODE_OBJECT_NOT_IN_PREREQUISITE_STATE == "55000"
ERRCODE_SUCCESSFUL_COMPLETION == "00000"

Procs == 1..NumProcs
Oids == 1..MaxOid
Bins == 0..HIST_BINS_MAX
Durations == 1..MaxDuration
BinCounts == 0..HIST_BINS_MAX      \* query_histogram.bin_count (0..1000)
Steps == 1..MaxStep                \* query_histogram.bin_width (1..1000)
SamplePcts == {1, MaxSamplePct}    \* query_histogram.sample_pct (1..100)
Types == {HISTOGRAM_LINEAR, HISTOGRAM_LOG}

VARIABLES
    dynamic,                  \* default_histogram_dynamic / histogram_is_dynamic
    segment_info,             \* the pointer to the segment: NULL or Attached
    process_shared_preload_libraries_in_progress,   \* the postmaster is in _PG_init
    sqlerrcode,               \* per process: the error its last call reported
    max_database_histograms,  \* the GUC at startup: the allocated capacity
    max_databases, current_databases, version,
    type, bins, step, sample_pct, track_utility,
    databases,                \* [0..max_database_histograms-1 -> db_info_t]
    histograms,               \* [0..max_database_histograms -> histogram_info_t]
    lock_shared,              \* segment_info->lock: shared holds per backend
    lock_leaked,              \* per backend: holds a shared hold it never releases
    MyDatabaseId,             \* per backend
    lookup_version, lookup_db_index,               \* per backend cache
    guc,                      \* per backend: its copies of the GUC variables
    config,                   \* the GUC values a new backend starts with
    pc, loc,                  \* per backend: position and locals of add_query
    clock,                    \* the last value GetCurrentTimestamp() returned
    user_fctx,                \* per backend: the rows of its last query_histogram
    done_global, done_db,     \* history: completed record operations per bin
    ncalls                    \* history: calls started

segvars == <<max_databases, current_databases, version, type, bins, step,
             sample_pct, track_utility, databases, histograms>>
lockvars == <<lock_shared, lock_leaked>>
cachevars == <<lookup_version, lookup_db_index>>
gucvars == <<guc, config>>
histvars == <<done_global, done_db>>
procvars == <<segment_info, process_shared_preload_libraries_in_progress,
              sqlerrcode>>
vars == <<dynamic, procvars, max_database_histograms, segvars, lockvars, MyDatabaseId,
          cachevars, gucvars, pc, loc, clock, user_fctx, histvars, ncalls>>

\* ---------------------------------------------------------- data helpers
ZeroBins == [b \in Bins |-> 0]

\* memset of count_bins and time_bins, last_reset kept
ZeroData(h) == [h EXCEPT !.count_bins = ZeroBins, !.time_bins = ZeroBins]

\* memset + last_reset = now
ResetHistogram(now) ==
    [last_reset |-> now, count_bins |-> ZeroBins, time_bins |-> ZeroBins]

\* count_bins[bin] += 1; time_bins[bin] += duration
AddToHistogram(h, bin, duration) ==
    [h EXCEPT !.count_bins[bin] = @ + 1, !.time_bins[bin] = @ + duration]

\* the counts and times of no recording at all
NoData == [count_bins |-> ZeroBins, time_bins |-> ZeroBins]

\* the counts and times of a histogram
DataOf(h) == [count_bins |-> h.count_bins, time_bins |-> h.time_bins]

\* the counts and times after one more recording
AddData(data, bin, duration) ==
    [count_bins |-> [data.count_bins EXCEPT ![bin] = @ + 1],
     time_bins |-> [data.time_bins EXCEPT ![bin] = @ + duration]]

RECURSIVE Log2Floor(_)
Log2Floor(n) == IF n <= 1 THEN 0 ELSE 1 + Log2Floor(n \div 2)

\* query_bin: floor(ms / step) or floor(log2(1 + ms / step)), clamped to bins.
\* floor(log2(1 + ms/step)) = floor(log2(floor((step + ms) / step))).
query_bin(ty, nbins, st, duration) ==
    LET raw == IF ty = HISTOGRAM_LINEAR
               THEN duration \div st
               ELSE Log2Floor((st + duration) \div st)
    IN  IF raw >= nbins THEN nbins ELSE raw

\* floor(ms / step) or floor(log2(1 + ms / step)), the double that query_bin
\* casts to int
RawBin(ty, st, duration) ==
    IF ty = HISTOGRAM_LINEAR THEN duration \div st
    ELSE Log2Floor((st + duration) \div st)

\* (int)x for a double x >= 0 with an integer value: x itself up to INT_MAX;
\* beyond it the conversion is undefined, and the builds give INT_MIN
\* (cvttsd2si) or INT_MAX (a saturating conversion)
IntOf(x) == IF x <= INT_MAX THEN {x} ELSE {-INT_MAX - 1, INT_MAX}

\* query_bin for any duration: the values it can return
QueryBins(ty, nbins, st, duration) ==
    {IF bin >= nbins THEN nbins ELSE bin : bin \in IntOf(RawBin(ty, st, duration))}

\* the linear search of find_histogram_index
RECURSIVE ScanFrom(_, _, _, _)
ScanFrom(dbs, cur, oid, i) ==
    IF i >= cur THEN DB_NOT_FOUND
    ELSE IF dbs[i].databaseoid = oid THEN i
    ELSE ScanFrom(dbs, cur, oid, i + 1)

ScanDatabases(dbs, cur, oid) == ScanFrom(dbs, cur, oid, 0)

\* find_histogram_index as backend p sees it: the cached index while the
\* cached version equals the segment's, else a scan
find_histogram_index(p, oid) ==
    IF lookup_version[p] = version
    THEN lookup_db_index[p]
    ELSE ScanDatabases(databases, current_databases, oid)

\* the cache after find_histogram_index(p, oid) returned idx
CacheStore(p, idx) ==
    /\ lookup_version' = [lookup_version EXCEPT ![p] = version]
    /\ lookup_db_index' = [lookup_db_index EXCEPT ![p] = idx]

\* ------------------------------------------------------------------ locks
\* An exclusive hold of segment_info->lock begins and ends inside one step, so
\* between steps the lock is free or held in shared mode only.
CanLockShared == TRUE
CanLockExclusive == \A q \in Procs : lock_shared[q] = 0 /\ ~lock_leaked[q]

NoLocals == [bin |-> 0, duration |-> 0, db_index |-> DB_NOT_FOUND,
             current_dbs |-> 0, reg |-> 0]

\* a backend that has not called query_histogram
NoQuery == [called |-> FALSE, scale |-> FALSE, rows |-> <<>>]

\* ------------------------------------------------------------------- Init
\* histogram_shmem_startup, first time through: the segment as configured,
\* the arrays zeroed
EmptyDatabases(maxdb) ==
    [i \in 0..(maxdb - 1) |-> [databaseoid |-> InvalidOid, histogram_idx |-> 0]]
EmptyHistograms(maxdb) == [i \in 0..maxdb |-> ResetHistogram(0)]

\* The dump a previous run of the server left at shutdown, when all that run
\* did was to record one query of duration durs[i] in database order[i], in
\* this order: its list of databases and its histograms.
RECURSIVE DumpHistograms(_, _, _, _, _, _)
DumpHistograms(hs, durs, i, ty, nbins, st) ==
    IF i > Len(durs) THEN hs
    ELSE LET bin == query_bin(ty, nbins, st, durs[i])
         IN  DumpHistograms([hs EXCEPT ![0] = AddToHistogram(@, bin, durs[i]),
                                       ![i] = AddToHistogram(@, bin, durs[i])],
                            durs, i + 1, ty, nbins, st)

DumpDatabases(maxdb, order) ==
    [i \in 0..(maxdb - 1) |->
        IF i < Len(order)
        THEN [databaseoid |-> order[i + 1], histogram_idx |-> i + 1]
        ELSE [databaseoid |-> InvalidOid, histogram_idx |-> 0]]

Injective(f) == \A i, j \in DOMAIN f : f[i] = f[j] => i = j
Orders(maxdb) ==
    {o \in UNION {[1..k -> Oids] : k \in 0..maxdb} : Injective(o)}

\* the GUC variables as the configuration file sets them (track_utility is
\* left at its default)
GucValues(maxdb, ty, nbins, st, pct) ==
    [default_histogram_bins |-> nbins, default_histogram_step |-> st,
     default_histogram_sample_pct |-> pct, default_histogram_type |-> ty,
     default_histogram_utility |-> TRUE, max_database_histograms |-> maxdb]

\* histogram_shmem_startup followed by histogram_load_from_file of such a dump
\* (cur databases, dbs, hs), or of no file (0, the zeroed arrays): the list of
\* databases, the histograms and current_databases come from the file; the
\* parameters, version and the locks are those of the new segment.
InitSegment(maxdb, ty, nbins, st, pct, cur, dbs, hs) ==
    /\ segment_info = Attached
    /\ process_shared_preload_libraries_in_progress = FALSE
    /\ sqlerrcode = [p \in Procs |-> ERRCODE_SUCCESSFUL_COMPLETION]
    /\ max_database_histograms = maxdb
    /\ max_databases = maxdb
    /\ current_databases = cur
    /\ version = 0
    /\ type = ty
    /\ bins = nbins
    /\ step = st
    /\ sample_pct = pct
    /\ track_utility = FALSE
    /\ databases = dbs
    /\ histograms = hs
    /\ lock_shared = [p \in Procs |-> 0]
    /\ lock_leaked = [p \in Procs |-> FALSE]
    /\ lookup_version = [p \in Procs |-> -1]
    /\ lookup_db_index = [p \in Procs |-> DB_NOT_FOUND]
    /\ guc = [p \in Procs |-> GucValues(maxdb, ty, nbins, st, pct)]
    /\ config = GucValues(maxdb, ty, nbins, st, pct)
    /\ pc = [p \in Procs |-> "idle"]
    /\ loc = [p \in Procs |-> NoLocals]
    /\ clock = 0
    /\ user_fctx = [p \in Procs |-> NoQuery]
    /\ done_global = DataOf(hs[0])
    /\ done_db = [o \in Oids |->
                    IF ScanDatabases(dbs, cur, o) = DB_NOT_FOUND THEN NoData
                    ELSE DataOf(hs[ScanDatabases(dbs, cur, o) + 1])]
    /\ ncalls = 0

\* ------------------------------------------------- recording a duration
\* explain_ExecutorEnd, the condition on the number of bins under which
\* add_query is called: the backend's own GUC value when static, the segment's
\* when dynamic
BinsPositive(p) ==
    IF dynamic THEN bins > 0 ELSE guc[p].default_histogram_bins > 0

\* history: a record operation of backend p for (bin, duration) returns
Completed(p, bin, duration) ==
    /\ done_global' = AddData(done_global, bin, duration)
    /\ done_db' = [done_db EXCEPT ![MyDatabaseId[p]] = AddData(@, bin, duration)]

\* add_query from the lookup of the database (the global histogram updated to
\* global, held holds of the segment lock counted in lock_shared) up to the
\* point where the segment lock is released for the upgrade, or the
\* per-database bins are about to be updated, or add_query returns (database
\* not tracked and no room)
RecordLookupAt(p, d, bin, global, held) ==
    /\ LET idx == find_histogram_index(p, MyDatabaseId[p])
       IN  /\ histograms' = [histograms EXCEPT ![0] = global]
           /\ CacheStore(p, idx)
           /\ IF idx = DB_NOT_FOUND /\ current_databases < max_databases
              THEN /\ pc' = [pc EXCEPT ![p] = "relock"]
                   /\ loc' = [loc EXCEPT ![p] = [bin |-> bin, duration |-> d,
                                db_index |-> idx,
                                current_dbs |-> current_databases, reg |-> 0]]
                   /\ lock_shared' = [lock_shared EXCEPT ![p] = @ - held]
                   /\ UNCHANGED histvars
              ELSE IF idx # DB_NOT_FOUND
              THEN /\ pc' = [pc EXCEPT ![p] = "ld_count"]
                   /\ loc' = [loc EXCEPT ![p] = [bin |-> bin, duration |-> d,
                                db_index |-> idx,
                                current_dbs |-> 0, reg |-> 0]]
                   /\ lock_shared' = [lock_shared EXCEPT ![p] = @ - held + 1]
                   /\ UNCHANGED histvars
              ELSE /\ Completed(p, bin, d)
                   /\ pc' = [pc EXCEPT ![p] = "idle"]
                   /\ loc' = [loc EXCEPT ![p] = NoLocals]
                   /\ lock_shared' = [lock_shared EXCEPT ![p] = @ - held]
    /\ UNCHANGED <<dynamic, procvars, user_fctx, max_database_histograms,
                   max_databases, current_databases, version, type, bins, step,
                   sample_pct, track_utility, databases, lock_leaked,
                   MyDatabaseId, gucvars, clock>>

\* the same with the bin given: the update of the global histogram under its
\* lock, then the rest
RecordBeginAt(p, d, bin) ==
    /\ pc[p] = "idle"
    /\ CanLockShared
    /\ BinsPositive(p)
    /\ RecordLookupAt(p, d, bin, AddToHistogram(histograms[0], bin, d), 0)

\* a record operation that skipped the global histogram
RecordBeginKeyOnly(p, d) ==
    /\ pc[p] = "idle"
    /\ CanLockShared
    /\ BinsPositive(p)
    /\ RecordLookupAt(p, d, query_bin(type, bins, step, d), histograms[0], 0)

\* explain_ExecutorEnd for a query that is sampled while bins > 0 (otherwise
\* it changes nothing), and add_query up to that point
RecordBegin(p, d) == RecordBeginAt(p, d, query_bin(type, bins, step, d))

\* The same as a reader of the global histogram sees it. The reader holds the
\* segment lock in shared mode and not histograms[0].lock, so it can run
\* between the two += of add_query lines 957-958: explain_ExecutorEnd and
\* add_query up to the first of them (histograms[0].lock held: no other
\* backend is between them)
RecordGlobalCount(p, d) ==
    /\ pc[p] = "idle"
    /\ CanLockShared
    /\ BinsPositive(p)
    /\ \A q \in Procs : pc[q] # "gl_time"
    /\ LET bin == query_bin(type, bins, step, d)
       IN  /\ histograms' = [histograms EXCEPT ![0].count_bins[bin] = @ + 1]
           /\ loc' = [loc EXCEPT ![p] = [NoLocals EXCEPT !.bin = bin,
                                                         !.duration = d]]
    /\ pc' = [pc EXCEPT ![p] = "gl_time"]
    /\ lock_shared' = [lock_shared EXCEPT ![p] = @ + 1]
    /\ UNCHANGED <<dynamic, procvars, user_fctx, max_database_histograms,
                   max_databases, current_databases, version, type, bins, step,
                   sample_pct, track_utility, databases, lock_leaked,
                   MyDatabaseId, cachevars, gucvars, clock, histvars>>

\* add_query from the second += of the global histogram on
RecordGlobalTime(p) ==
    /\ pc[p] = "gl_time"
    /\ RecordLookupAt(p, loc[p].duration, loc[p].bin,
                      [histograms[0] EXCEPT
                          !.time_bins[loc[p].bin] = @ + loc[p].duration], 1)

\* add_query with a bin below 0: count_bins[bin] of the global histogram lies
\* before the segment, the backend is stopped by the signal of the store
\* (holding the segment lock in shared mode)
RecordFault(p, d, bin) ==
    /\ pc[p] = "idle"
    /\ CanLockShared
    /\ BinsPositive(p)
    /\ pc' = [pc EXCEPT ![p] = "fault"]
    /\ loc' = [loc EXCEPT ![p] = [NoLocals EXCEPT !.bin = bin, !.duration = d]]
    /\ lock_shared' = [lock_shared EXCEPT ![p] = @ + 1]
    /\ UNCHANGED <<dynamic, procvars, user_fctx, max_database_histograms, segvars,
                   lock_leaked, MyDatabaseId, cachevars, gucvars, clock,
                   histvars>>

\* explain_ExecutorEnd and add_query for a query of any duration
RecordLong(p, d) ==
    \E bin \in QueryBins(type, bins, step, d) :
       IF bin \in Bins THEN RecordBeginAt(p, d, bin)
       ELSE RecordFault(p, d, bin)

\* add_query lines 977-979 without the test of current_databases
RecheckNever(p) == loc[p].db_index

\* add_query lines 977-979: the search is repeated when the number of databases
\* changed while the lock was released
RecheckIndex(p) ==
    IF loc[p].current_dbs # current_databases
    THEN find_histogram_index(p, MyDatabaseId[p])
    ELSE loc[p].db_index

\* add_query lines 982-998: the element of databases[] an insert writes
InsertWrites(p) ==
    IF RecheckIndex(p) = DB_NOT_FOUND /\ current_databases < max_databases
    THEN {current_databases}
    ELSE {}

\* add_query lines 975-1015 and the caller's LWLockRelease: the segment lock
\* is held exclusively from the re-check to the return
RecordRelock(p) ==
    /\ pc[p] = "relock"
    /\ CanLockExclusive
    /\ LET me == MyDatabaseId[p]
           again == loc[p].current_dbs # current_databases
           idx == RecheckIndex(p)
           insert == idx = DB_NOT_FOUND /\ current_databases < max_databases
           db_index == IF insert THEN current_databases ELSE idx
           dbs == IF insert
                  THEN [databases EXCEPT ![current_databases] =
                          [databaseoid |-> me,
                           histogram_idx |-> current_databases + 1]]
                  ELSE databases
       IN  /\ IF again THEN CacheStore(p, idx) ELSE UNCHANGED cachevars
           /\ databases' = dbs
           /\ current_databases' = IF insert THEN current_databases + 1
                                   ELSE current_databases
           /\ version' = IF insert THEN version + 1 ELSE version
           /\ histograms' =
                IF db_index # DB_NOT_FOUND
                THEN [histograms EXCEPT ![dbs[db_index].histogram_idx] =
                         AddToHistogram(@, loc[p].bin, loc[p].duration)]
                ELSE histograms
    /\ Completed(p, loc[p].bin, loc[p].duration)
    /\ pc' = [pc EXCEPT ![p] = "idle"]
    /\ loc' = [loc EXCEPT ![p] = NoLocals]
    /\ UNCHANGED <<dynamic, procvars, user_fctx, max_database_histograms, max_databases, type, bins,
                   step, sample_pct, track_utility, lockvars, MyDatabaseId,
                   gucvars, clock>>

\* add_query lines 1010-1013 under the shared segment lock: no histogram lock
\* is taken, so each += is a load and a store other backends can interleave
HistogramIndex(p) == databases[loc[p].db_index].histogram_idx

RecordLoadCount(p) ==
    /\ pc[p] = "ld_count"
    /\ loc' = [loc EXCEPT ![p].reg =
                  histograms[HistogramIndex(p)].count_bins[loc[p].bin]]
    /\ pc' = [pc EXCEPT ![p] = "st_count"]
    /\ UNCHANGED <<dynamic, procvars, user_fctx, max_database_histograms, segvars, lockvars,
                   MyDatabaseId, cachevars, gucvars, clock, histvars>>

RecordStoreCount(p) ==
    /\ pc[p] = "st_count"
    /\ histograms' = [histograms EXCEPT
                        ![HistogramIndex(p)].count_bins[loc[p].bin] = loc[p].reg + 1]
    /\ pc' = [pc EXCEPT ![p] = "ld_time"]
    /\ UNCHANGED <<dynamic, procvars, user_fctx, max_database_histograms, max_databases,
                   current_databases, version, type, bins, step, sample_pct,
                   track_utility, databases, lockvars, MyDatabaseId, cachevars,
                   gucvars, loc, clock, histvars>>

RecordLoadTime(p) ==
    /\ pc[p] = "ld_time"
    /\ loc' = [loc EXCEPT ![p].reg =
                  histograms[HistogramIndex(p)].time_bins[loc[p].bin]]
    /\ pc' = [pc EXCEPT ![p] = "st_time"]
    /\ UNCHANGED <<dynamic, procvars, user_fctx, max_database_histograms, segvars, lockvars,
                   MyDatabaseId, cachevars, gucvars, clock, histvars>>

\* the store of time_bins[bin], the return, and the caller's LWLockRelease
RecordStoreTime(p) ==
    /\ pc[p] = "st_time"
    /\ histograms' = [histograms EXCEPT
                        ![HistogramIndex(p)].time_bins[loc[p].bin] =
                            loc[p].reg + loc[p].duration]
    /\ lock_shared' = [lock_shared EXCEPT ![p] = @ - 1]
    /\ Completed(p, loc[p].bin, loc[p].duration)
    /\ pc' = [pc EXCEPT ![p] = "idle"]
    /\ loc' = [loc EXCEPT ![p] = NoLocals]
    /\ UNCHANGED <<dynamic, procvars, user_fctx, max_database_histograms, max_databases,
                   current_databases, version, type, bins, step, sample_pct,
                   track_utility, databases, lock_leaked, MyDatabaseId, cachevars,
                   gucvars, clock>>

\* ------------------------------------------------------------------ resets
\* GetCurrentTimestamp(): never earlier than the value returned before
NowValues == (IF clock = 0 THEN 1 ELSE clock)..MaxClock

\* histogram_reset, the loop over i <= current_databases: the OIDs
ResetDatabases(dbs, cur, remove) ==
    IF remove
    THEN [i \in DOMAIN dbs |->
            IF i <= cur THEN [dbs[i] EXCEPT !.databaseoid = InvalidOid]
            ELSE dbs[i]]
    ELSE dbs

\* histogram_reset, the loop over i <= current_databases: the histograms
ResetHistograms(hs, cur, now) ==
    [i \in DOMAIN hs |-> IF i <= cur THEN ResetHistogram(now) ELSE hs[i]]

\* histogram_reset, the loop over i <= current_databases: the elements of
\* databases[] and of histograms[] it writes
ResetDatabaseWrites(cur, remove) == IF remove THEN 0..cur ELSE {}
ResetHistogramWrites(cur) == 0..cur

\* histogram_reset with remove writes databases[current_databases].databaseoid.
\* When all allocated entries are in use that element lies past the array, on
\* the first bytes of histograms[0] (its last_reset, stamped in iteration 0).
GlobalStampOutcomes(dbs, cur, remove, now) ==
    IF remove /\ cur > 0 /\ cur \notin DOMAIN dbs
    THEN {now, ClobberedTimestamp}
    ELSE {now}

\* histogram_reset(locked, remove) between taking and releasing the lock
HistogramReset(remove, now, stamp0) ==
    /\ databases' = ResetDatabases(databases, current_databases, remove)
    /\ histograms' = [ResetHistograms(histograms, current_databases, now)
                         EXCEPT ![0].last_reset = stamp0]
    /\ version' = version + 1

\* query_histogram_reset(remove) -> histogram_reset(false, remove)
Reset(p, remove) ==
    /\ pc[p] = "idle"
    /\ segment_info # NULL
    /\ CanLockExclusive
    /\ \E now \in NowValues :
       \E stamp0 \in GlobalStampOutcomes(databases, current_databases, remove, now) :
          /\ HistogramReset(remove, now, stamp0)
          /\ clock' = now
    /\ UNCHANGED <<dynamic, procvars, user_fctx, max_database_histograms, max_databases,
                   current_databases, type, bins, step, sample_pct,
                   track_utility, lockvars, MyDatabaseId, cachevars, gucvars,
                   pc, loc, histvars>>

\* query_histogram_reset_global() -> histogram_reset_global(false)
ResetGlobal(p) ==
    /\ pc[p] = "idle"
    /\ segment_info # NULL
    /\ CanLockExclusive
    /\ \E now \in NowValues :
          /\ histograms' = [histograms EXCEPT ![0] = ResetHistogram(now)]
          /\ clock' = now
    /\ version' = version + 1
    /\ UNCHANGED <<dynamic, procvars, user_fctx, max_database_histograms, max_databases,
                   current_databases, type, bins, step, sample_pct,
                   track_utility, databases, lockvars, MyDatabaseId, cachevars,
                   gucvars, pc, loc, histvars>>

\* a removal that moved the whole entry of the last database, its
\* histogram_idx included
RemoveDatabaseEntry(dbs, cur, db_index) ==
    IF db_index # cur - 1
    THEN [dbs EXCEPT ![db_index] = dbs[cur - 1]]
    ELSE dbs

\* histogram_reset_db, remove: the OID of the last database moves to db_index
RemoveDatabase(dbs, cur, db_index) ==
    IF db_index # cur - 1
    THEN [dbs EXCEPT ![db_index].databaseoid = dbs[cur - 1].databaseoid]
    ELSE dbs

\* histogram_reset_db, remove: the memcpy from histograms[current_databases-1]
\* to histograms[db_index] and the memset of histograms[current_databases-1]
RemoveHistogram(hs, cur, db_index) ==
    LET moved == IF db_index # cur - 1
                 THEN [hs EXCEPT ![db_index].count_bins = hs[cur - 1].count_bins,
                                 ![db_index].time_bins = hs[cur - 1].time_bins]
                 ELSE hs
    IN  [moved EXCEPT ![cur - 1] = ZeroData(@)]

\* histogram_reset_db, no remove: memset of histograms[db_index], last_reset
ResetOneHistogram(hs, db_index, now) ==
    [hs EXCEPT ![db_index] = ResetHistogram(now)]

\* query_histogram_reset_db(oid, remove) -> histogram_reset_db(false, oid, remove)
ResetDb(p, oid, remove) ==
    /\ pc[p] = "idle"
    /\ segment_info # NULL
    /\ CanLockExclusive
    /\ LET db_index == find_histogram_index(p, oid)
       IN  /\ CacheStore(p, db_index)
           /\ IF db_index = DB_NOT_FOUND
              THEN UNCHANGED <<databases, histograms, current_databases,
                                  version, clock>>
              ELSE IF remove
              THEN /\ databases' = RemoveDatabase(databases, current_databases,
                                                  db_index)
                   /\ histograms' = RemoveHistogram(histograms, current_databases,
                                                    db_index)
                   /\ current_databases' = current_databases - 1
                   /\ version' = version + 1
                   /\ UNCHANGED clock
              ELSE \E now \in NowValues :
                   /\ histograms' = ResetOneHistogram(histograms, db_index, now)
                   /\ clock' = now
                   /\ UNCHANGED <<databases, current_databases, version>>
    /\ UNCHANGED <<dynamic, procvars, user_fctx, max_database_histograms, max_databases, type, bins,
                   step, sample_pct, track_utility, lockvars, MyDatabaseId,
                   gucvars, pc, loc, histvars>>

\* --------------------------------------------------------- no segment yet
\* a function that took the segment lock before it tested segment_info
PrerequisiteErrorLocked(p) ==
    /\ pc[p] = "idle"
    /\ segment_info = NULL
    /\ sqlerrcode' = [sqlerrcode EXCEPT
                         ![p] = ERRCODE_OBJECT_NOT_IN_PREREQUISITE_STATE]
    /\ lock_leaked' = [lock_leaked EXCEPT ![p] = TRUE]
    /\ UNCHANGED <<dynamic, segment_info,
                   process_shared_preload_libraries_in_progress,
                   max_database_histograms, segvars, lock_shared, MyDatabaseId,
                   cachevars, gucvars, pc, loc, clock, user_fctx, histvars>>

\* histogram_reset, histogram_reset_global, histogram_reset_db,
\* histogram_version, histogram_get_reset_global, histogram_get_reset_db,
\* histogram_get_data_global, histogram_get_data_db called by process p while
\* segment_info is NULL: ereport(ERROR) is the first thing each of them does
PrerequisiteError(p) ==
    /\ pc[p] = "idle"
    /\ segment_info = NULL
    /\ sqlerrcode' = [sqlerrcode EXCEPT
                         ![p] = ERRCODE_OBJECT_NOT_IN_PREREQUISITE_STATE]
    /\ UNCHANGED <<dynamic, segment_info,
                   process_shared_preload_libraries_in_progress,
                   max_database_histograms, segvars, lockvars, MyDatabaseId,
                   cachevars, gucvars, pc, loc, clock, user_fctx, histvars>>

\* ----------------------------------------------------------------- readers
\* histogram_version: what it returns
histogram_version == version

\* query_histogram_get_version() -> histogram_version
GetVersion(p) ==
    /\ pc[p] = "idle"
    /\ segment_info # NULL
    /\ CanLockShared
    /\ UNCHANGED <<dynamic, procvars, user_fctx, max_database_histograms,
                   segvars, lockvars, MyDatabaseId, cachevars, gucvars, pc, loc,
                   clock, histvars>>

\* query_histogram(scale, oid) -> histogram_get_data_db: the lookup and the
\* locking; the return of NULL at line 1231 keeps the shared hold
GetDataDb(p, oid) ==
    /\ pc[p] = "idle"
    /\ segment_info # NULL
    /\ CanLockShared
    /\ LET db_index == find_histogram_index(p, oid)
       IN  /\ CacheStore(p, db_index)
           /\ lock_leaked' = IF db_index = DB_NOT_FOUND
                             THEN [lock_leaked EXCEPT ![p] = TRUE]
                             ELSE lock_leaked
    /\ UNCHANGED <<dynamic, procvars, user_fctx, max_database_histograms, segvars, lock_shared,
                   MyDatabaseId, gucvars, pc, loc, clock, histvars>>

\* query_histogram_get_reset_timestamp(oid) -> histogram_get_reset_db:
\* *found is TRUE on every path, the timestamp is read at histograms[db_index]
GetResetDb(p, oid) ==
    /\ pc[p] = "idle"
    /\ segment_info # NULL
    /\ CanLockShared
    /\ LET db_index == find_histogram_index(p, oid)
       IN  /\ CacheStore(p, db_index)
    /\ UNCHANGED <<dynamic, procvars, user_fctx, max_database_histograms, segvars, lockvars,
                   MyDatabaseId, gucvars, pc, loc, clock, histvars>>

\* histogram_get_reset_db as backend p calls it: what it returns
histogram_get_reset_db(p, oid) ==
    LET db_index == find_histogram_index(p, oid)
    IN  [found |-> TRUE,
         timestamp |-> IF db_index # DB_NOT_FOUND
                       THEN histograms[db_index].last_reset
                       ELSE 0]

\* histogram_get_reset_global: what it returns
histogram_get_reset_global == histograms[0].last_reset

\* the Datum of query_histogram_get_reset_timestamp(NULL)
ResetTimestampGlobal == [isnull |-> FALSE, value |-> histogram_get_reset_global]

\* the Datum of query_histogram_get_reset_timestamp(oid) called by backend p
ResetTimestampDb(p, oid) ==
    IF histogram_get_reset_db(p, oid).found
    THEN [isnull |-> FALSE, value |-> histogram_get_reset_db(p, oid).timestamp]
    ELSE [isnull |-> TRUE, value |-> 0]

\* query_histogram_get_reset_timestamp(NULL) -> histogram_get_reset_global
GetResetGlobal(p) ==
    /\ pc[p] = "idle"
    /\ segment_info # NULL
    /\ CanLockShared
    /\ UNCHANGED <<dynamic, procvars, user_fctx, max_database_histograms, segvars, lockvars,
                   MyDatabaseId, cachevars, gucvars, pc, loc, clock, histvars>>

\* ------------------------------------------------------------ query_histogram
RECURSIVE GCD(_, _)
GCD(a, b) == IF b = 0 THEN a ELSE GCD(b, a % b)

\* A float8 or float4 value that is a quotient of integers: the fraction in
\* lowest terms (the rounding of the quotient to 53 or 24 bits is left out)
Frac(num, den) ==
    IF num = 0 THEN [num |-> 0, den |-> 1]
    ELSE [num |-> num \div GCD(num, den), den |-> den \div GCD(num, den)]

RECURSIVE Pow2(_)
Pow2(e) == IF e = 0 THEN 1 ELSE 2 * Pow2(e - 1)

\* 2^e modulo m
RECURSIVE Pow2Mod(_, _)
Pow2Mod(e, m) == IF e = 0 THEN 1 % m ELSE (2 * Pow2Mod(e - 1, m)) % m

\* count_data[i] = count_data[i] * coeff with coeff = 100.0 / sample_pct: the
\* int64 n times the double nearest to 100/pct, rounded to a double and cut
\* to an int64. With 100n/pct not an integer the result is its integer part.
\* With 100n/pct an integer k the result is k, unless coeff was rounded down
\* (remainder R of 100 * 2^(52-e) by pct with 0 < 2R < pct, e the exponent of
\* 100/pct) and the product k - n*(R/pct)*2^(e-52) lies more than half a gap
\* below k, where it rounds to the double before k and is cut to k - 1.
ScaleCount(n, pct) ==
    LET k == (100 * n) \div pct
        e == Log2Floor(100 \div pct)
        R == (100 * Pow2Mod(DoubleFractionBits - e, pct)) % pct
        ek == Log2Floor(k)
        f == IF Pow2(ek) = k THEN 4 ELSE 2
    IN  IF (100 * n) % pct # 0 \/ k = 0 THEN k
        ELSE IF R = 0 \/ 2 * R > pct THEN k
        ELSE IF f * n * R * Pow2(e) > pct * Pow2(ek) THEN k - 1
        ELSE k

\* the sum of f[0..b]
RECURSIVE SumBins(_, _)
SumBins(f, b) == IF b < 0 THEN 0 ELSE f[b] + SumBins(f, b - 1)

\* histogram_get_data_global / histogram_get_data_db for histogram h: the
\* parameters, the bins 0..bins copied (none with bins = 0), scaled when asked
\* and sample_pct < 100, and the totals of the copied values. Times are
\* numerators over time_den.
HistogramData(h, scale) ==
    LET scaled == scale /\ sample_pct < 100
        copied == IF bins > 0 THEN 0..bins ELSE {}
        counts == [i \in copied |->
                      IF scaled THEN ScaleCount(h.count_bins[i], sample_pct)
                      ELSE h.count_bins[i]]
        times == [i \in copied |->
                     IF scaled THEN 100 * h.time_bins[i]
                     ELSE h.time_bins[i]]
    IN  [histogram_type |-> type, bins_count |-> bins, bins_width |-> step,
         count_data |-> counts, time_data |-> times,
         time_den |-> IF scaled THEN sample_pct ELSE 1,
         total_count |-> IF bins > 0 THEN SumBins(counts, bins) ELSE 0,
         total_time |-> IF bins > 0 THEN SumBins(times, bins) ELSE 0]

\* a row whose upper bound is never NULL
HistogramRowBounded(data, binIdx, max_calls) ==
    [bin_from |-> binIdx * data.bins_width,
     bin_to |-> (binIdx + 1) * data.bins_width,
     count |-> data.count_data[binIdx],
     count_pct |-> Frac(0, 1),
     time |-> Frac(data.time_data[binIdx], data.time_den),
     time_pct |-> Frac(0, 1)]

\* the row query_histogram returns at call binIdx of max_calls
HistogramRow(data, binIdx, max_calls) ==
    [bin_from |->
        IF data.histogram_type = HISTOGRAM_LINEAR THEN binIdx * data.bins_width
        ELSE IF binIdx = 0 THEN 0
        ELSE Pow2(binIdx - 1) * data.bins_width,
     bin_to |->
        IF max_calls - 1 = binIdx THEN NullDatum
        ELSE IF data.histogram_type = HISTOGRAM_LINEAR
             THEN (binIdx + 1) * data.bins_width
             ELSE Pow2(binIdx) * data.bins_width,
     count |-> data.count_data[binIdx],
     count_pct |-> IF data.total_count > 0
                   THEN Frac(100 * data.count_data[binIdx], data.total_count)
                   ELSE Frac(0, 1),
     time |-> Frac(data.time_data[binIdx], data.time_den),
     time_pct |-> IF data.total_time > 0
                  THEN Frac(100 * data.time_data[binIdx], data.total_time)
                  ELSE Frac(0, 1)]

\* rows for the bins below bins_count only
HistogramRowsNoLast(data) ==
    [n \in 1..data.bins_count |-> HistogramRow(data, n - 1, data.bins_count)]

\* the rows of query_histogram for data: bins_count + 1 of them with
\* bins_count > 0, else none
HistogramRows(data) ==
    LET max_calls == IF data.bins_count > 0 THEN data.bins_count + 1
                     ELSE data.bins_count
    IN  [n \in 1..max_calls |-> HistogramRow(data, n - 1, max_calls)]

\* query_histogram(scale, NULL) by backend p: histogram_get_data_global under
\* the shared lock, then the rows
QueryHistogramGlobal(p, scale) ==
    /\ pc[p] = "idle"
    /\ segment_info # NULL
    /\ CanLockShared
    /\ user_fctx' = [user_fctx EXCEPT ![p] =
                        [called |-> TRUE, scale |-> scale,
                         rows |-> HistogramRows(HistogramData(histograms[0],
                                                              scale))]]
    /\ UNCHANGED <<dynamic, procvars, max_database_histograms, segvars, lockvars,
                   MyDatabaseId, cachevars, gucvars, pc, loc, clock, histvars>>

\* query_histogram(scale, oid) by backend p: histogram_get_data_db (no rows,
\* and the shared lock kept, when the database is not found), then the rows
QueryHistogramDb(p, scale, oid) ==
    /\ pc[p] = "idle"
    /\ segment_info # NULL
    /\ CanLockShared
    /\ LET db_index == find_histogram_index(p, oid)
       IN  /\ CacheStore(p, db_index)
           /\ lock_leaked' = IF db_index = DB_NOT_FOUND
                             THEN [lock_leaked EXCEPT ![p] = TRUE]
                             ELSE lock_leaked
           /\ user_fctx' = [user_fctx EXCEPT ![p] =
                 [called |-> TRUE, scale |-> scale,
                  rows |-> IF db_index = DB_NOT_FOUND THEN <<>>
                           ELSE HistogramRows(
                                   HistogramData(histograms[db_index + 1],
                                                 scale))]]
    /\ UNCHANGED <<dynamic, procvars, max_database_histograms, segvars, lock_shared,
                   MyDatabaseId, gucvars, pc, loc, clock, histvars>>

\* histogram_get_data_dbs: the list it returns, from its head: each new
\* element is linked in front of the one before, so the histogram of the last
\* database comes first and the global one (databaseoid InvalidOid) last
HistogramDataDbs(scale) ==
    [n \in 1..(current_databases + 1) |->
        LET j == current_databases + 1 - n
        IN  [databaseoid |-> IF j = 0 THEN InvalidOid
                             ELSE databases[j - 1].databaseoid,
             data |-> HistogramData(histograms[j], scale)]]

\* the row query_histograms returns at call call_cntr, bin binIdx of the
\* list element item; pow(2, -1) * bins_width is cut to an integer
HistogramsRow(item, call_cntr, binIdx) ==
    [databaseoid |-> IF item.databaseoid = InvalidOid THEN NullDatum
                     ELSE item.databaseoid,
     bin_from |->
        IF item.data.histogram_type = HISTOGRAM_LINEAR
        THEN binIdx * item.data.bins_width
        ELSE IF call_cntr = 0 THEN 0
        ELSE IF binIdx = 0 THEN item.data.bins_width \div 2
        ELSE Pow2(binIdx - 1) * item.data.bins_width,
     bin_to |->
        IF item.data.histogram_type = HISTOGRAM_LINEAR
        THEN IF item.data.bins_count = binIdx THEN NullDatum
             ELSE (binIdx + 1) * item.data.bins_width
        ELSE IF item.data.bins_count - 1 = binIdx THEN NullDatum
             ELSE Pow2(binIdx) * item.data.bins_width,
     count |-> item.data.count_data[binIdx],
     count_pct |-> IF item.data.total_count > 0
                   THEN Frac(100 * item.data.count_data[binIdx],
                             item.data.total_count)
                   ELSE Frac(0, 1),
     time |-> Frac(item.data.time_data[binIdx], item.data.time_den),
     time_pct |-> IF item.data.total_time > 0
                  THEN Frac(100 * item.data.time_data[binIdx],
                            item.data.total_time)
                  ELSE Frac(0, 1)]

\* the rows of query_histograms: bins + 1 for each element of the list with
\* bins > 0, else none
HistogramsRows(scale) ==
    LET list == HistogramDataDbs(scale)
        max_calls == (IF bins > 0 THEN bins + 1 ELSE bins) * Len(list)
    IN  [n \in 1..max_calls |->
            HistogramsRow(list[((n - 1) \div (bins + 1)) + 1], n - 1,
                          (n - 1) % (bins + 1))]

\* query_histograms(scale) by backend p
QueryHistograms(p, scale) ==
    /\ pc[p] = "idle"
    /\ segment_info # NULL
    /\ CanLockShared
    /\ user_fctx' = [user_fctx EXCEPT ![p] =
                        [called |-> TRUE, scale |-> scale,
                         rows |-> HistogramsRows(scale)]]
    /\ UNCHANGED <<dynamic, procvars, max_database_histograms, segvars, lockvars,
                   MyDatabaseId, cachevars, gucvars, pc, loc, clock, histvars>>

\* ----------------------------------------------------------------- setters
RECURSIVE Log2Ceil(_)
Log2Ceil(n) == IF n <= 1 THEN 0 ELSE 1 + Log2Ceil((n + 1) \div 2)

\* (int)ceil(log2(INT_MAX/step))
MaxBinCount(st) == Log2Ceil(INT_MAX \div st)

\* the bin count a logarithmic histogram is cut down to
CapBins(ty, nbins, st) ==
    IF ty = HISTOGRAM_LOG /\ nbins > MaxBinCount(st) THEN MaxBinCount(st)
    ELSE nbins

\* histogram_is_dynamic as the assign hooks read it, had startup left it at
\* its initial value
histogram_is_dynamic_initial == TRUE

\* histogram_is_dynamic as the assign hooks read it: true until it is set from
\* query_histogram.dynamic at the end of histogram_shmem_startup
histogram_is_dynamic == IF segment_info = NULL THEN TRUE ELSE dynamic

\* an assign hook that called histogram_reset(true, true)
HookResetRemove ==
    \E now \in NowValues :
       /\ HistogramReset(TRUE, now, now)
       /\ clock' = now

\* histogram_reset(true, false) inside an assign hook
HookReset ==
    \E now \in NowValues :
       /\ HistogramReset(FALSE, now, now)
       /\ clock' = now

\* SET query_histogram.<name> = newval by backend p: the assign hook returns
\* and the GUC machinery stores newval in the backend's variable (the hooks
\* are void, PG_VERSION_NUM >= 90100)
GucAssign(p, name, newval) == guc' = [guc EXCEPT ![p][name] = newval]

\* set_histogram_bins_count_hook
SetBinsCount(p, newval) ==
    /\ pc[p] = "idle"
    /\ GucAssign(p, "default_histogram_bins", newval)
    /\ IF ~histogram_is_dynamic \/ segment_info = NULL
       THEN UNCHANGED <<segvars, clock>>
       ELSE /\ CanLockExclusive
            /\ bins' = CapBins(type, newval, step)
            /\ HookReset
            /\ UNCHANGED <<max_databases, current_databases, type, step,
                           sample_pct, track_utility>>
    /\ UNCHANGED <<dynamic, procvars, user_fctx, max_database_histograms, lockvars, MyDatabaseId,
                   cachevars, config, pc, loc, histvars>>

\* set_histogram_bins_width_hook
SetBinsWidth(p, newval) ==
    /\ pc[p] = "idle"
    /\ GucAssign(p, "default_histogram_step", newval)
    /\ IF ~histogram_is_dynamic \/ segment_info = NULL
       THEN UNCHANGED <<segvars, clock>>
       ELSE /\ CanLockExclusive
            /\ step' = newval
            /\ bins' = CapBins(type, bins, newval)
            /\ HookReset
            /\ UNCHANGED <<max_databases, current_databases, type, sample_pct,
                           track_utility>>
    /\ UNCHANGED <<dynamic, procvars, user_fctx, max_database_histograms, lockvars, MyDatabaseId,
                   cachevars, config, pc, loc, histvars>>

\* set_histogram_sample_hook
SetSample(p, newval) ==
    /\ pc[p] = "idle"
    /\ GucAssign(p, "default_histogram_sample_pct", newval)
    /\ IF ~histogram_is_dynamic \/ segment_info = NULL
       THEN UNCHANGED <<segvars, clock>>
       ELSE /\ CanLockExclusive
            /\ sample_pct' = newval
            /\ HookReset
            /\ UNCHANGED <<max_databases, current_databases, type, bins, step,
                           track_utility>>
    /\ UNCHANGED <<dynamic, procvars, user_fctx, max_database_histograms, lockvars, MyDatabaseId,
                   cachevars, config, pc, loc, histvars>>

\* set_max_databases_hook
SetMaxDatabases(p, newval) ==
    /\ pc[p] = "idle"
    /\ GucAssign(p, "max_database_histograms", newval)
    /\ IF ~histogram_is_dynamic \/ segment_info = NULL
       THEN UNCHANGED <<segvars, clock>>
       ELSE /\ CanLockExclusive
            /\ max_databases' = newval
            /\ HookReset
            /\ UNCHANGED <<current_databases, type, bins, step, sample_pct,
                           track_utility>>
    /\ UNCHANGED <<dynamic, procvars, user_fctx, max_database_histograms, lockvars, MyDatabaseId,
                   cachevars, config, pc, loc, histvars>>

\* set_histogram_type_hook
SetType(p, newval) ==
    /\ pc[p] = "idle"
    /\ GucAssign(p, "default_histogram_type", newval)
    /\ IF ~histogram_is_dynamic \/ segment_info = NULL
       THEN UNCHANGED <<segvars, clock>>
       ELSE /\ CanLockExclusive
            /\ type' = newval
            /\ bins' = CapBins(newval, bins, step)
            /\ HookReset
            /\ UNCHANGED <<max_databases, current_databases, step, sample_pct,
                           track_utility>>
    /\ UNCHANGED <<dynamic, procvars, user_fctx, max_database_histograms, lockvars, MyDatabaseId,
                   cachevars, config, pc, loc, histvars>>

\* set_histogram_track_utility
SetTrackUtility(p, newval) ==
    /\ pc[p] = "idle"
    /\ GucAssign(p, "default_histogram_utility", newval)
    /\ IF ~histogram_is_dynamic \/ segment_info = NULL
       THEN UNCHANGED <<segvars, clock>>
       ELSE /\ CanLockExclusive
            /\ track_utility' = newval
            /\ HookReset
            /\ UNCHANGED <<max_databases, current_databases, type, bins, step,
                           sample_pct>>
    /\ UNCHANGED <<dynamic, procvars, user_fctx, max_database_histograms, lockvars, MyDatabaseId,
                   cachevars, config, pc, loc, histvars>>

\* ---------------------------------------------------------------- backends
\* A backend exits (ProcKill releases its LWLocks) and a new one starts in
\* database db: fresh static variables, the GUC values of the configuration
Connect(p, db) ==
    /\ pc[p] = "idle"
    /\ MyDatabaseId' = [MyDatabaseId EXCEPT ![p] = db]
    /\ lookup_version' = [lookup_version EXCEPT ![p] = -1]
    /\ lookup_db_index' = [lookup_db_index EXCEPT ![p] = DB_NOT_FOUND]
    /\ guc' = [guc EXCEPT ![p] = config]
    /\ lock_leaked' = [lock_leaked EXCEPT ![p] = FALSE]
    /\ UNCHANGED <<dynamic, procvars, user_fctx, max_database_histograms, segvars, lock_shared,
                   config, pc, loc, clock, histvars>>

\* ------------------------------------------------------ specification Spec
\* The registry, one call at a time: backends of any database record
\* durations, look databases up, reset and remove them; no call starts while
\* another backend is inside one. The parameters stay as configured.
OthersIdle(p) == \A q \in Procs \ {p} : pc[q] = "idle"

\* a call starts (a step from "idle") while the budget lasts
Budget(p, max) ==
    IF pc[p] = "idle"
    THEN ncalls < max /\ ncalls' = ncalls + 1
    ELSE UNCHANGED ncalls

\* startup with max_databases = maxdb, the configured parameters, and the
\* dump of a previous run that recorded one query in each database of order
Startup(maxdb, order, durs) ==
    InitSegment(maxdb, HISTOGRAM_LINEAR, HIST_BINS_MAX, MaxStep, MaxSamplePct,
                Len(order), DumpDatabases(maxdb, order),
                DumpHistograms(EmptyHistograms(maxdb), durs, 1,
                               HISTOGRAM_LINEAR, HIST_BINS_MAX, MaxStep))

Init ==
    /\ dynamic = TRUE
    /\ \E maxdb \in 0..MaxDatabases :
       \E order \in Orders(maxdb) :
       \E durs \in [1..Len(order) -> Durations] :
          Startup(maxdb, order, durs)
    /\ MyDatabaseId = [p \in Procs |-> IF p \in Oids THEN p ELSE 1]

Serial(p) == OthersIdle(p) /\ Budget(p, MaxCalls)

Next ==
    \/ \E p \in Procs, d \in Durations : Serial(p) /\ RecordBegin(p, d)
    \/ \E p \in Procs : Serial(p) /\ RecordRelock(p)
    \/ \E p \in Procs : Serial(p) /\ RecordLoadCount(p)
    \/ \E p \in Procs : Serial(p) /\ RecordStoreCount(p)
    \/ \E p \in Procs : Serial(p) /\ RecordLoadTime(p)
    \/ \E p \in Procs : Serial(p) /\ RecordStoreTime(p)
    \/ \E p \in Procs, remove \in BOOLEAN : Serial(p) /\ Reset(p, remove)
    \/ \E p \in Procs : Serial(p) /\ ResetGlobal(p)
    \/ \E p \in Procs, oid \in Oids, remove \in BOOLEAN :
          Serial(p) /\ ResetDb(p, oid, remove)
    \/ \E p \in Procs, oid \in Oids : Serial(p) /\ GetDataDb(p, oid)
    \/ \E p \in Procs, db \in Oids : Serial(p) /\ Connect(p, db)

Spec == Init /\ [][Next]_vars

\* --------------------------------------------- specification SpecIntrospect
\* The registry of the specification Spec, with backends that also ask for
\* the time of the last reset; one call at a time.
NextIntrospect ==
    \/ \E p \in Procs, d \in Durations : Serial(p) /\ RecordBegin(p, d)
    \/ \E p \in Procs : Serial(p) /\ RecordRelock(p)
    \/ \E p \in Procs : Serial(p) /\ RecordLoadCount(p)
    \/ \E p \in Procs : Serial(p) /\ RecordStoreCount(p)
    \/ \E p \in Procs : Serial(p) /\ RecordLoadTime(p)
    \/ \E p \in Procs : Serial(p) /\ RecordStoreTime(p)
    \/ \E p \in Procs, remove \in BOOLEAN : Serial(p) /\ Reset(p, remove)
    \/ \E p \in Procs : Serial(p) /\ ResetGlobal(p)
    \/ \E p \in Procs, oid \in Oids, remove \in BOOLEAN :
          Serial(p) /\ ResetDb(p, oid, remove)
    \/ \E p \in Procs, oid \in Oids : Serial(p) /\ GetResetDb(p, oid)
    \/ \E p \in Procs : Serial(p) /\ GetResetGlobal(p)

SpecIntrospect == Init /\ [][NextIntrospect]_vars

\* ------------------------------------------------ specification SpecStatic
\* query_histogram.dynamic = false: backends record durations and SET the
\* parameters, one call at a time.
InitStatic ==
    /\ dynamic = FALSE
    /\ \E maxdb \in 0..MaxDatabases :
       \E order \in Orders(maxdb) :
       \E durs \in [1..Len(order) -> Durations] :
          Startup(maxdb, order, durs)
    /\ MyDatabaseId = [p \in Procs |-> IF p \in Oids THEN p ELSE 1]

NextStatic ==
    \/ \E p \in Procs, d \in Durations : Serial(p) /\ RecordBegin(p, d)
    \/ \E p \in Procs : Serial(p) /\ RecordRelock(p)
    \/ \E p \in Procs : Serial(p) /\ RecordLoadCount(p)
    \/ \E p \in Procs : Serial(p) /\ RecordStoreCount(p)
    \/ \E p \in Procs : Serial(p) /\ RecordLoadTime(p)
    \/ \E p \in Procs : Serial(p) /\ RecordStoreTime(p)
    \/ \E p \in Procs, n \in BinCounts : Serial(p) /\ SetBinsCount(p, n)
    \/ \E p \in Procs, w \in Steps : Serial(p) /\ SetBinsWidth(p, w)
    \/ \E p \in Procs, t \in Types : Serial(p) /\ SetType(p, t)
    \/ \E p \in Procs, pct \in SamplePcts : Serial(p) /\ SetSample(p, pct)
    \/ \E p \in Procs, u \in BOOLEAN : Serial(p) /\ SetTrackUtility(p, u)
    \/ \E p \in Procs, m \in 0..MaxDatabases : Serial(p) /\ SetMaxDatabases(p, m)
    \/ \E p \in Procs, db \in Oids : Serial(p) /\ Connect(p, db)

SpecStatic == InitStatic /\ [][NextStatic]_vars

\* ----------------------------------------------- specification SpecDynamic
\* query_histogram.dynamic = true with any configured type, bin count and bin
\* width: backends SET the parameters, record durations and reset, one call
\* at a time.

\* startup as configured, with the dump of a previous run that had the same
\* configuration and recorded one query in each database of order
StartupWith(maxdb, ty, nbins, st, pct, order, durs) ==
    InitSegment(maxdb, ty, nbins, st, pct,
                Len(order), DumpDatabases(maxdb, order),
                DumpHistograms(EmptyHistograms(maxdb), durs, 1, ty, nbins, st))

\* the databases 1..k, tracked in this order (none while the bin count is 0:
\* explain_ExecutorEnd records nothing then)
FirstOids(maxdb, nbins) ==
    {[i \in 1..k |-> i] : k \in 0..(IF nbins = 0 THEN 0 ELSE maxdb)}

InitDynamic ==
    /\ dynamic = TRUE
    /\ \E maxdb \in 0..MaxDatabases :
       \E ty \in Types, nbins \in BinCounts, st \in Steps :
       \E order \in FirstOids(maxdb, nbins) :
          StartupWith(maxdb, ty, nbins, st, MaxSamplePct, order,
                      [i \in 1..Len(order) |-> MaxDuration])
    /\ MyDatabaseId = [p \in Procs |-> IF p \in Oids THEN p ELSE 1]

NextDynamic ==
    \/ \E p \in Procs, d \in Durations : Serial(p) /\ RecordBegin(p, d)
    \/ \E p \in Procs : Serial(p) /\ RecordRelock(p)
    \/ \E p \in Procs : Serial(p) /\ RecordLoadCount(p)
    \/ \E p \in Procs : Serial(p) /\ RecordStoreCount(p)
    \/ \E p \in Procs : Serial(p) /\ RecordLoadTime(p)
    \/ \E p \in Procs : Serial(p) /\ RecordStoreTime(p)
    \/ \E p \in Procs, n \in BinCounts : Serial(p) /\ SetBinsCount(p, n)
    \/ \E p \in Procs, w \in Steps : Serial(p) /\ SetBinsWidth(p, w)
    \/ \E p \in Procs, t \in Types : Serial(p) /\ SetType(p, t)
    \/ \E p \in Procs, pct \in SamplePcts : Serial(p) /\ SetSample(p, pct)
    \/ \E p \in Procs, u \in BOOLEAN : Serial(p) /\ SetTrackUtility(p, u)
    \/ \E p \in Procs, m \in 0..MaxDatabases :
          /\ m <= max_database_histograms
          /\ Serial(p) /\ SetMaxDatabases(p, m)
    \/ \E p \in Procs, remove \in BOOLEAN : Serial(p) /\ Reset(p, remove)
    \/ \E p \in Procs : Serial(p) /\ ResetGlobal(p)
    \/ \E p \in Procs, oid \in Oids, remove \in BOOLEAN :
          Serial(p) /\ ResetDb(p, oid, remove)

SpecDynamic == InitDynamic /\ [][NextDynamic]_vars

\* ------------------------------------------------------ shutdown and startup
\* pg_md5_binary of the bytes written: equal digests only for equal bytes
pg_md5_binary(payload) == <<"md5", payload>>

\* histogram_segment_size(max_databases) in 8-byte words: 8 of
\* segment_info_t, one per db_info_t, last_reset + lock +
\* 2 * (HIST_BINS_MAX+1) bins per histogram_info_t
histogram_segment_size(maxdb) ==
    8 + maxdb + (maxdb + 1) * (2 + 2 * (HIST_BINS_MAX + 1))

\* the bytes of the segment histogram_shmem_shutdown writes: the header, the
\* list and the histograms as laid out at startup (capacity entries)
SegmentBytes ==
    [type |-> type, bins |-> bins, step |-> step, sample_pct |-> sample_pct,
     max_databases |-> max_databases, current_databases |-> current_databases,
     capacity |-> max_database_histograms,
     databases |-> databases, histograms |-> histograms]

\* histogram_shmem_shutdown: the file holds the digest, the length and the
\* bytes
DumpFile ==
    [hash |-> pg_md5_binary(SegmentBytes),
     length |-> histogram_segment_size(max_databases),
     available |-> histogram_segment_size(max_databases),
     payload |-> SegmentBytes]

\* what may happen to the file before the next startup: nothing, a changed
\* byte of the payload, a file cut short
Damages == {"none", "changed", "short"}
Damaged(file, damage) ==
    CASE damage = "none" -> file
      [] damage = "changed" ->
            [file EXCEPT !.payload.histograms[0].count_bins[0] = @ + 1]
      [] damage = "short" -> [file EXCEPT !.available = @ - 1]

\* a load that trusted every file whose payload it could read
FileRead(file) ==
    /\ file.length > 0
    /\ file.available >= file.length

\* fread of the payload returned 1 and the digests are equal
FileValid(file) ==
    /\ file.length > 0
    /\ file.available >= file.length
    /\ pg_md5_binary(file.payload) = file.hash

\* a condition that left out the comparison of sample_pct
FileAcceptedAnySample(file, dyn, cfg) ==
    \/ dyn
    \/ /\ ~dyn
       /\ file.payload.bins = cfg.default_histogram_bins
       /\ file.payload.step = cfg.default_histogram_step
       /\ file.payload.type = cfg.default_histogram_type
       /\ file.payload.current_databases <= cfg.max_database_histograms

\* the condition of histogram_load_from_file under which the file is copied
\* into the segment
FileAccepted(file, dyn, cfg) ==
    \/ dyn
    \/ /\ ~dyn
       /\ file.payload.bins = cfg.default_histogram_bins
       /\ file.payload.step = cfg.default_histogram_step
       /\ file.payload.sample_pct = cfg.default_histogram_sample_pct
       /\ file.payload.type = cfg.default_histogram_type
       /\ file.payload.current_databases <= cfg.max_database_histograms

\* the histograms of the buffer are read at the offset computed from the
\* file's max_databases, the bytes were laid out with the capacity of the
\* segment: with the two different, the fields read are words of other
\* fields (each read as some word w)
MisreadHistograms ==
    {[last_reset |-> ClobberedTimestamp,
      count_bins |-> [b \in Bins |-> w],
      time_bins |-> [b \in Bins |-> w]] : w \in 0..1}

\* the list and the histograms after the copy loops of
\* histogram_load_from_file into a fresh segment of capacity maxdb
LoadedDatabases(payload, maxdb) ==
    [i \in 0..(maxdb - 1) |->
        IF i < payload.current_databases THEN payload.databases[i]
        ELSE [databaseoid |-> InvalidOid, histogram_idx |-> 0]]

LoadedHistograms(payload, maxdb, misread) ==
    [i \in 0..maxdb |->
        IF i <= payload.current_databases
        THEN IF payload.max_databases = payload.capacity
             THEN [last_reset |-> payload.histograms[i].last_reset,
                   count_bins |-> payload.histograms[i].count_bins,
                   time_bins |-> payload.histograms[i].time_bins]
             ELSE misread
        ELSE ResetHistogram(0)]

\* histogram_shmem_startup of a new server: the segment as configured by cfg,
\* then (cur, dbs, hs) as histogram_load_from_file left them; new backends
StartSegment(cfg, cur, dbs, hs) ==
    /\ segment_info' = Attached
    /\ process_shared_preload_libraries_in_progress' = FALSE
    /\ sqlerrcode' = [p \in Procs |-> ERRCODE_SUCCESSFUL_COMPLETION]
    /\ max_database_histograms' = cfg.max_database_histograms
    /\ max_databases' = cfg.max_database_histograms
    /\ current_databases' = cur
    /\ version' = 0
    /\ type' = cfg.default_histogram_type
    /\ bins' = cfg.default_histogram_bins
    /\ step' = cfg.default_histogram_step
    /\ sample_pct' = cfg.default_histogram_sample_pct
    /\ track_utility' = FALSE
    /\ databases' = dbs
    /\ histograms' = hs
    /\ lock_shared' = [p \in Procs |-> 0]
    /\ lock_leaked' = [p \in Procs |-> FALSE]
    /\ lookup_version' = [p \in Procs |-> -1]
    /\ lookup_db_index' = [p \in Procs |-> DB_NOT_FOUND]
    /\ guc' = [p \in Procs |-> cfg]
    /\ config' = cfg
    /\ pc' = [p \in Procs |-> "idle"]
    /\ loc' = [p \in Procs |-> NoLocals]
    /\ user_fctx' = [p \in Procs |-> NoQuery]
    /\ done_global' = DataOf(hs[0])
    /\ done_db' = [o \in Oids |->
                     IF ScanDatabases(dbs, cur, o) = DB_NOT_FOUND THEN NoData
                     ELSE DataOf(hs[ScanDatabases(dbs, cur, o) + 1])]

\* A clean shutdown of the server (histogram_shmem_shutdown) and the next
\* startup with configuration cfg (histogram_shmem_startup,
\* histogram_load_from_file)
Restart(cfg, damage) ==
    /\ \A p \in Procs : pc[p] = "idle"
    /\ LET file == Damaged(DumpFile, damage)
           maxdb == cfg.max_database_histograms
       IN  IF FileValid(file) /\ FileAccepted(file, dynamic, cfg)
           THEN \E misread \in MisreadHistograms :
                   StartSegment(cfg, file.payload.current_databases,
                                LoadedDatabases(file.payload, maxdb),
                                LoadedHistograms(file.payload, maxdb, misread))
           ELSE StartSegment(cfg, 0, EmptyDatabases(maxdb),
                             EmptyHistograms(maxdb))
    /\ UNCHANGED <<dynamic, MyDatabaseId, clock>>

\* ----------------------------------------------- specification SpecPreload
\* The time before the segment exists. Either the library is named in
\* shared_preload_libraries: the postmaster is in _PG_init, where the GUC
\* machinery calls the assign hooks with the configured values, and then runs
\* histogram_shmem_startup (no dump file), after which backends call the
\* functions. Or it is not: _PG_init returns at once, no hook is installed,
\* the segment is never created, and backends call the functions.
Postmaster == CHOOSE p \in Procs : \A q \in Procs : p <= q

\* no segment: nothing of it can be read
NoSegment ==
    /\ max_databases = 0
    /\ current_databases = 0
    /\ version = 0
    /\ type = HISTOGRAM_LINEAR
    /\ bins = 0
    /\ step = 0
    /\ sample_pct = 0
    /\ track_utility = FALSE
    /\ databases = EmptyDatabases(0)
    /\ histograms = [i \in {} |-> ResetHistogram(0)]

InitPreload ==
    /\ dynamic \in BOOLEAN
    /\ segment_info = NULL
    /\ process_shared_preload_libraries_in_progress \in BOOLEAN
    /\ sqlerrcode = [p \in Procs |-> ERRCODE_SUCCESSFUL_COMPLETION]
    /\ NoSegment
    /\ \E maxdb \in 0..1 :
       \E ty \in Types, nbins \in BinCounts, st \in Steps :
          /\ max_database_histograms = maxdb
          /\ config = GucValues(maxdb, ty, nbins, st, MaxSamplePct)
          /\ guc = [p \in Procs |-> GucValues(maxdb, ty, nbins, st, MaxSamplePct)]
    /\ lock_shared = [p \in Procs |-> 0]
    /\ lock_leaked = [p \in Procs |-> FALSE]
    /\ lookup_version = [p \in Procs |-> -1]
    /\ lookup_db_index = [p \in Procs |-> DB_NOT_FOUND]
    /\ pc = [p \in Procs |-> "idle"]
    /\ loc = [p \in Procs |-> NoLocals]
    /\ clock = 0
    /\ user_fctx = [p \in Procs |-> NoQuery]
    /\ done_global = NoData
    /\ done_db = [o \in Oids |-> NoData]
    /\ ncalls = 0
    /\ MyDatabaseId = [p \in Procs |-> IF p \in Oids THEN p ELSE 1]

\* histogram_shmem_startup in the postmaster, first time through, no dump
\* file: the segment as the postmaster's GUC variables configure it; the
\* backends are its children
ShmemStartup ==
    /\ process_shared_preload_libraries_in_progress
    /\ segment_info = NULL
    /\ StartSegment(guc[Postmaster], 0,
                    EmptyDatabases(guc[Postmaster].max_database_histograms),
                    EmptyHistograms(guc[Postmaster].max_database_histograms))
    /\ UNCHANGED <<dynamic, MyDatabaseId, clock>>

\* the processes in which an assign hook can run: the postmaster alone while
\* it loads the library, every backend of a server that has the segment
HookRuns(p) ==
    IF segment_info = NULL
    THEN process_shared_preload_libraries_in_progress /\ p = Postmaster
    ELSE TRUE

NextPreload ==
    \/ \E p \in Procs :
          /\ ~process_shared_preload_libraries_in_progress
          /\ Serial(p) /\ PrerequisiteError(p)
    \/ \E p \in Procs, n \in BinCounts :
          HookRuns(p) /\ Serial(p) /\ SetBinsCount(p, n)
    \/ \E p \in Procs, w \in Steps :
          HookRuns(p) /\ Serial(p) /\ SetBinsWidth(p, w)
    \/ \E p \in Procs, t \in Types :
          HookRuns(p) /\ Serial(p) /\ SetType(p, t)
    \/ \E p \in Procs, pct \in SamplePcts :
          HookRuns(p) /\ Serial(p) /\ SetSample(p, pct)
    \/ \E p \in Procs, u \in BOOLEAN :
          HookRuns(p) /\ Serial(p) /\ SetTrackUtility(p, u)
    \/ \E p \in Procs, m \in 0..MaxDatabases :
          /\ segment_info # NULL => m <= max_database_histograms
          /\ HookRuns(p) /\ Serial(p) /\ SetMaxDatabases(p, m)
    \/ ShmemStartup /\ UNCHANGED ncalls
    \/ \E p \in Procs, remove \in BOOLEAN : Serial(p) /\ Reset(p, remove)
    \/ \E p \in Procs : Serial(p) /\ ResetGlobal(p)
    \/ \E p \in Procs, oid \in Oids, remove \in BOOLEAN :
          Serial(p) /\ ResetDb(p, oid, remove)
    \/ \E p \in Procs : Serial(p) /\ GetVersion(p)
    \/ \E p \in Procs : Serial(p) /\ GetResetGlobal(p)
    \/ \E p \in Procs, oid \in Oids : Serial(p) /\ GetResetDb(p, oid)
    \/ \E p \in Procs, scale \in BOOLEAN :
          Serial(p) /\ QueryHistogramGlobal(p, scale)
    \/ \E p \in Procs, scale \in BOOLEAN, oid \in Oids :
          Serial(p) /\ QueryHistogramDb(p, scale, oid)

SpecPreload == InitPreload /\ [][NextPreload]_vars

\* ----------------------------------------------- specification SpecRestart
\* Servers of either mode that are shut down and started again, the
\* configuration file edited in between (one parameter at most), the dump
\* file possibly damaged; backends SET parameters and record durations.
ConfigEdits ==
    {config}
    \cup {[config EXCEPT !.default_histogram_bins = n] : n \in BinCounts}
    \cup {[config EXCEPT !.default_histogram_step = w] : w \in Steps}
    \cup {[config EXCEPT !.default_histogram_sample_pct = pct] : pct \in SamplePcts}
    \cup {[config EXCEPT !.default_histogram_type = t] : t \in Types}
    \cup {[config EXCEPT !.max_database_histograms = m] : m \in 0..MaxDatabases}

InitRestart ==
    /\ dynamic \in BOOLEAN
    /\ \E maxdb \in 0..MaxDatabases :
       \E ty \in Types, nbins \in BinCounts, st \in Steps :
       \E order \in FirstOids(maxdb, nbins) :
          StartupWith(maxdb, ty, nbins, st, MaxSamplePct, order,
                      [i \in 1..Len(order) |-> MaxDuration])
    /\ MyDatabaseId = [p \in Procs |-> IF p \in Oids THEN p ELSE 1]

NextRestart ==
    \/ \E p \in Procs, d \in Durations : Serial(p) /\ RecordBegin(p, d)
    \/ \E p \in Procs : Serial(p) /\ RecordRelock(p)
    \/ \E p \in Procs : Serial(p) /\ RecordLoadCount(p)
    \/ \E p \in Procs : Serial(p) /\ RecordStoreCount(p)
    \/ \E p \in Procs : Serial(p) /\ RecordLoadTime(p)
    \/ \E p \in Procs : Serial(p) /\ RecordStoreTime(p)
    \/ \E p \in Procs, n \in BinCounts : Serial(p) /\ SetBinsCount(p, n)
    \/ \E p \in Procs, w \in Steps : Serial(p) /\ SetBinsWidth(p, w)
    \/ \E p \in Procs, t \in Types : Serial(p) /\ SetType(p, t)
    \/ \E p \in Procs, pct \in SamplePcts : Serial(p) /\ SetSample(p, pct)
    \/ \E p \in Procs, u \in BOOLEAN : Serial(p) /\ SetTrackUtility(p, u)
    \/ \E p \in Procs, m \in 0..MaxDatabases :
          /\ m <= max_database_histograms
          /\ Serial(p) /\ SetMaxDatabases(p, m)
    \/ \E cfg \in ConfigEdits, damage \in Damages :
          /\ current_databases <= cfg.max_database_histograms \/ ~dynamic
          /\ ncalls < MaxCalls /\ ncalls' = ncalls + 1
          /\ Restart(cfg, damage)

SpecRestart == InitRestart /\ [][NextRestart]_vars

\* ------------------------------------------------- specification SpecQuery
\* Servers of any type, bin count, bin width and sampling rate that loaded the
\* dump of a previous run with the same configuration; backends record
\* durations and call query_histogram, one call at a time.
QuerySamplePcts == {3, 25, 97, MaxSamplePct}
QueryDurations == {1, MaxQueryDuration}

\* n queries of duration d
Repeated(n, d) == <<[n |-> n, d |-> d]>>

\* what the previous run recorded, all of it in database 1: nothing, one
\* query in each bin of a linear histogram (the last beyond all bins), or
\* 10 or 97 queries of duration 0
QueryLoads(nbins, st) ==
    IF nbins = 0 THEN {<<>>}
    ELSE {<<>>, [i \in 1..(HIST_BINS_MAX + 1) |-> [n |-> 1, d |-> i * st - 1]],
          Repeated(10, 0), Repeated(97, 0)}

\* count_bins[bin] += 1; time_bins[bin] += duration, n times
AddManyToHistogram(h, bin, n, duration) ==
    [h EXCEPT !.count_bins[bin] = @ + n, !.time_bins[bin] = @ + n * duration]

\* the histogram of the queries durs[i..]
RECURSIVE RecordedHistogram(_, _, _, _, _, _)
RecordedHistogram(h, durs, i, ty, nbins, st) ==
    IF i > Len(durs) THEN h
    ELSE RecordedHistogram(
            AddManyToHistogram(h, query_bin(ty, nbins, st, durs[i].d),
                               durs[i].n, durs[i].d),
            durs, i + 1, ty, nbins, st)

\* the dump of that run: the global histogram, and database 1 with an equal
\* histogram when the run could track it
LoadedRun(maxdb, durs, ty, nbins, st) ==
    [cur |-> IF maxdb > 0 /\ Len(durs) > 0 THEN 1 ELSE 0,
     dbs |-> DumpDatabases(maxdb, IF maxdb > 0 /\ Len(durs) > 0
                                  THEN <<1>> ELSE <<>>),
     hs |-> [i \in 0..maxdb |->
               IF i = 0 \/ (i = 1 /\ Len(durs) > 0)
               THEN RecordedHistogram(ResetHistogram(0), durs, 1, ty, nbins, st)
               ELSE ResetHistogram(0)]]

InitQuery ==
    /\ dynamic = TRUE
    /\ \E maxdb \in 0..1 :
       \E ty \in Types, nbins \in BinCounts, st \in Steps :
       \E pct \in QuerySamplePcts :
       \E durs \in QueryLoads(nbins, st) :
          LET run == LoadedRun(maxdb, durs, ty, nbins, st)
          IN  InitSegment(maxdb, ty, nbins, st, pct, run.cur, run.dbs, run.hs)
    /\ MyDatabaseId = [p \in Procs |-> 1]

NextQuery ==
    \/ \E p \in Procs, d \in QueryDurations : Serial(p) /\ RecordBegin(p, d)
    \/ \E p \in Procs : Serial(p) /\ RecordRelock(p)
    \/ \E p \in Procs : Serial(p) /\ RecordLoadCount(p)
    \/ \E p \in Procs : Serial(p) /\ RecordStoreCount(p)
    \/ \E p \in Procs : Serial(p) /\ RecordLoadTime(p)
    \/ \E p \in Procs : Serial(p) /\ RecordStoreTime(p)
    \/ \E p \in Procs, scale \in BOOLEAN :
          Serial(p) /\ QueryHistogramGlobal(p, scale)
    \/ \E p \in Procs, scale \in BOOLEAN, oid \in Oids :
          Serial(p) /\ QueryHistogramDb(p, scale, oid)

SpecQuery == InitQuery /\ [][NextQuery]_vars

\* ----------------------------------------------- specification SpecQueries
\* The same with query_histograms, the query of all histograms.
NextQueries ==
    \/ \E p \in Procs, d \in QueryDurations : Serial(p) /\ RecordBegin(p, d)
    \/ \E p \in Procs : Serial(p) /\ RecordRelock(p)
    \/ \E p \in Procs : Serial(p) /\ RecordLoadCount(p)
    \/ \E p \in Procs : Serial(p) /\ RecordStoreCount(p)
    \/ \E p \in Procs : Serial(p) /\ RecordLoadTime(p)
    \/ \E p \in Procs : Serial(p) /\ RecordStoreTime(p)
    \/ \E p \in Procs, scale \in BOOLEAN :
          Serial(p) /\ QueryHistogramGlobal(p, scale)
    \/ \E p \in Procs, scale \in BOOLEAN, oid \in Oids :
          Serial(p) /\ QueryHistogramDb(p, scale, oid)
    \/ \E p \in Procs, scale \in BOOLEAN :
          Serial(p) /\ QueryHistograms(p, scale)

SpecQueries == InitQuery /\ [][NextQueries]_vars

\* ----------------------------------------------- specification SpecWriters
\* Backends of any databases record durations concurrently, starting from an
\* empty segment (no dump file); every interleaving of their steps.
InitWriters ==
    /\ dynamic = TRUE
    /\ \E maxdb \in 0..MaxDatabases :
          Startup(maxdb, <<>>, <<>>)
    /\ MyDatabaseId \in [Procs -> Oids]

Writer(p) == Budget(p, MaxRecords)

NextWriters ==
    \/ \E p \in Procs, d \in Durations : Writer(p) /\ RecordBegin(p, d)
    \/ \E p \in Procs : Writer(p) /\ RecordRelock(p)
    \/ \E p \in Procs : Writer(p) /\ RecordLoadCount(p)
    \/ \E p \in Procs : Writer(p) /\ RecordStoreCount(p)
    \/ \E p \in Procs : Writer(p) /\ RecordLoadTime(p)
    \/ \E p \in Procs : Writer(p) /\ RecordStoreTime(p)

SpecWriters == InitWriters /\ [][NextWriters]_vars

\* -------------------------------------------------- specification SpecLive
\* Backends record durations, query the histogram of a database and reset
\* all histograms, every interleaving of their steps; a backend may exit and
\* a new one take its place. LWLockAcquire grants a free lock to a waiter, so
\* each step of a started add_query that stays possible is taken (weak
\* fairness); nothing forces a backend to start a call or to exit.
NextLive ==
    \/ \E p \in Procs, d \in Durations : Writer(p) /\ RecordBegin(p, d)
    \/ \E p \in Procs : Writer(p) /\ RecordRelock(p)
    \/ \E p \in Procs : Writer(p) /\ RecordLoadCount(p)
    \/ \E p \in Procs : Writer(p) /\ RecordStoreCount(p)
    \/ \E p \in Procs : Writer(p) /\ RecordLoadTime(p)
    \/ \E p \in Procs : Writer(p) /\ RecordStoreTime(p)
    \/ \E p \in Procs, oid \in Oids : Writer(p) /\ GetDataDb(p, oid)
    \/ \E p \in Procs, remove \in BOOLEAN : Writer(p) /\ Reset(p, remove)
    \/ \E p \in Procs, db \in Oids : Writer(p) /\ Connect(p, db)

LockFairness ==
    \A p \in Procs :
       /\ WF_vars(Writer(p) /\ RecordRelock(p))
       /\ WF_vars(Writer(p) /\ RecordLoadCount(p))
       /\ WF_vars(Writer(p) /\ RecordStoreCount(p))
       /\ WF_vars(Writer(p) /\ RecordLoadTime(p))
       /\ WF_vars(Writer(p) /\ RecordStoreTime(p))

SpecLive == InitWriters /\ [][NextLive]_vars /\ LockFairness

\* ----------------------------------------------- specification SpecReaders
\* Backends record durations while backends call query_histogram, every
\* interleaving of their steps; the segment starts empty or with database 1
\* tracked (the dump of a run that recorded one query).
InitReaders ==
    /\ dynamic = TRUE
    /\ \E maxdb \in 0..1 :
       \E order \in FirstOids(maxdb, HIST_BINS_MAX) :
       \E durs \in [1..Len(order) -> Durations] :
          Startup(maxdb, order, durs)
    /\ MyDatabaseId = [p \in Procs |-> 1]

NextReaders ==
    \/ \E p \in Procs, d \in Durations : Writer(p) /\ RecordGlobalCount(p, d)
    \/ \E p \in Procs : Writer(p) /\ RecordGlobalTime(p)
    \/ \E p \in Procs : Writer(p) /\ RecordRelock(p)
    \/ \E p \in Procs : Writer(p) /\ RecordLoadCount(p)
    \/ \E p \in Procs : Writer(p) /\ RecordStoreCount(p)
    \/ \E p \in Procs : Writer(p) /\ RecordLoadTime(p)
    \/ \E p \in Procs : Writer(p) /\ RecordStoreTime(p)
    \/ \E p \in Procs, scale \in BOOLEAN :
          Writer(p) /\ QueryHistogramGlobal(p, scale)
    \/ \E p \in Procs, scale \in BOOLEAN, oid \in Oids :
          Writer(p) /\ QueryHistogramDb(p, scale, oid)

SpecReaders == InitReaders /\ [][NextReaders]_vars

\* ------------------------------------------------- specification SpecEvict
\* Backends of any databases record durations while backends reset or remove
\* the databases that their lookup finds, and reset all the histograms; every
\* interleaving of their steps. The segment starts with the dump of a previous
\* run.
MaxEvictCalls == 3

InitEvict ==
    /\ dynamic = TRUE
    /\ \E maxdb \in 0..MaxDatabases :
       \E order \in FirstOids(maxdb, HIST_BINS_MAX) :
          Startup(maxdb, order, [i \in 1..Len(order) |-> MaxDuration])
    /\ MyDatabaseId \in [Procs -> Oids]

Evictor(p) == Budget(p, MaxEvictCalls)

NextEvict ==
    \/ \E p \in Procs : Evictor(p) /\ RecordBegin(p, MaxDuration)
    \/ \E p \in Procs : Evictor(p) /\ RecordRelock(p)
    \/ \E p \in Procs : Evictor(p) /\ RecordLoadCount(p)
    \/ \E p \in Procs : Evictor(p) /\ RecordStoreCount(p)
    \/ \E p \in Procs : Evictor(p) /\ RecordLoadTime(p)
    \/ \E p \in Procs : Evictor(p) /\ RecordStoreTime(p)
    \/ \E p \in Procs, oid \in Oids, remove \in BOOLEAN :
          /\ Evictor(p)
          /\ find_histogram_index(p, oid) # DB_NOT_FOUND
          /\ ResetDb(p, oid, remove)
    \/ \E p \in Procs, remove \in BOOLEAN : Evictor(p) /\ Reset(p, remove)

SpecEvict == InitEvict /\ [][NextEvict]_vars

\* ----------------------------------------------- specification SpecLookups
\* Backends of any databases record durations and query the histograms of
\* databases, every interleaving of their steps: no reset, no removal, no
\* change of a parameter. The segment starts with the dump of a previous run.
NextLookups ==
    \/ \E p \in Procs, d \in Durations : Writer(p) /\ RecordBegin(p, d)
    \/ \E p \in Procs : Writer(p) /\ RecordRelock(p)
    \/ \E p \in Procs : Writer(p) /\ RecordLoadCount(p)
    \/ \E p \in Procs : Writer(p) /\ RecordStoreCount(p)
    \/ \E p \in Procs : Writer(p) /\ RecordLoadTime(p)
    \/ \E p \in Procs : Writer(p) /\ RecordStoreTime(p)
    \/ \E p \in Procs, oid \in Oids : Writer(p) /\ GetDataDb(p, oid)

SpecLookups == InitEvict /\ [][NextLookups]_vars

\* ----------------------------------------------- specification SpecDisable
\* query_histogram.dynamic = true: backends of any databases record durations
\* while backends SET query_histogram.bin_count, starting from an empty
\* segment; every interleaving of their steps.
InitDisable ==
    /\ dynamic = TRUE
    /\ \E maxdb \in 0..MaxDatabases :
          Startup(maxdb, <<>>, <<>>)
    /\ MyDatabaseId \in [Procs -> Oids]

NextDisable ==
    \/ \E p \in Procs, d \in Durations : Writer(p) /\ RecordBegin(p, d)
    \/ \E p \in Procs : Writer(p) /\ RecordRelock(p)
    \/ \E p \in Procs : Writer(p) /\ RecordLoadCount(p)
    \/ \E p \in Procs : Writer(p) /\ RecordStoreCount(p)
    \/ \E p \in Procs : Writer(p) /\ RecordLoadTime(p)
    \/ \E p \in Procs : Writer(p) /\ RecordStoreTime(p)
    \/ \E p \in Procs, n \in BinCounts : Writer(p) /\ SetBinsCount(p, n)

SpecDisable == InitDisable /\ [][NextDisable]_vars

\* -------------------------------------------------- specification SpecBins
\* Servers of any type, bin count and bin width whose backends record queries
\* of any duration, up to those whose number of bin widths no int holds; one
\* call at a time.
LongDurations == 0..((INT_MAX + 1) * MaxStep)

InitBins ==
    /\ dynamic = TRUE
    /\ \E maxdb \in 0..1 :
       \E ty \in Types, nbins \in BinCounts, st \in Steps :
          StartupWith(maxdb, ty, nbins, st, MaxSamplePct, <<>>, <<>>)
    /\ MyDatabaseId = [p \in Procs |-> 1]

NextBins ==
    \/ \E p \in Procs, d \in LongDurations : Serial(p) /\ RecordLong(p, d)
    \/ \E p \in Procs : Serial(p) /\ RecordRelock(p)
    \/ \E p \in Procs : Serial(p) /\ RecordLoadCount(p)
    \/ \E p \in Procs : Serial(p) /\ RecordStoreCount(p)
    \/ \E p \in Procs : Serial(p) /\ RecordLoadTime(p)
    \/ \E p \in Procs : Serial(p) /\ RecordStoreTime(p)

SpecBins == InitBins /\ [][NextBins]_vars

\* ------------------------------------------------------- what callers see
\* the index a scan of the list finds for oid (a lookup with no valid cache)
TrackedIndex(oid) == ScanDatabases(databases, current_databases, oid)
Tracked(oid) == TrackedIndex(oid) # DB_NOT_FOUND
TrackedOids == {o \in Oids : Tracked(o)}

\* the counts and times histogram_get_data_db copies for a tracked database:
\* those of histograms[db_index + 1]
ReportedData(oid) ==
    [count_bins |-> histograms[TrackedIndex(oid) + 1].count_bins,
     time_bins |-> histograms[TrackedIndex(oid) + 1].time_bins]

\* the counts and times histogram_get_data_global copies
GlobalData ==
    [count_bins |-> histograms[0].count_bins,
     time_bins |-> histograms[0].time_bins]

\* the number of entries of the list that hold oid
Entries(oid) ==
    Cardinality({i \in 0..(current_databases - 1) : databases[i].databaseoid = oid})

\* the sum of a bin array
RECURSIVE SumTo(_, _)
SumTo(f, b) == IF b < 0 THEN 0 ELSE f[b] + SumTo(f, b - 1)
Total(f) == SumTo(f, HIST_BINS_MAX)

AllIdle == \A p \in Procs : pc[p] = "idle"

\* the per-database histograms (every histogram but the global one)
DbHistograms == [i \in DOMAIN histograms \ {0} |-> histograms[i]]

\* some step of a record operation of backend p
RecordStep(p) ==
    \/ \E d \in Durations : RecordBegin(p, d)
    \/ RecordRelock(p)
    \/ RecordLoadCount(p)
    \/ RecordStoreCount(p)
    \/ RecordLoadTime(p)
    \/ RecordStoreTime(p)

\* ------------------------------------------------------------------ claims
\* C1: with A, B, C tracked in this order, reset_db(B, remove) leaves exactly
\* the other tracked databases tracked, reports for A and for C the counts and
\* times it reported before, and increments version exactly once.
C1_EvictKeepsOthers ==
    [][\A p \in Procs : \A a, b, c \in Oids :
          (/\ Tracked(a) /\ Tracked(b) /\ Tracked(c)
           /\ TrackedIndex(a) < TrackedIndex(b)
           /\ TrackedIndex(b) < TrackedIndex(c)
           /\ ResetDb(p, b, TRUE))
          => (/\ TrackedOids' = TrackedOids \ {b}
              /\ ReportedData(a)' = ReportedData(a)
              /\ ReportedData(c)' = ReportedData(c)
              /\ version' = version + 1)]_vars

\* C2: two backends that record for the same database X, not tracked at
\* startup, whatever the interleaving of their lock release and exclusive
\* acquire: the list never holds X twice, and once both have returned (room
\* being available) it holds X once and X's histogram counts 2 queries.
C2_RaceInsertsOnce ==
    \A x \in Oids :
       /\ Entries(x) <= 1
       /\ (/\ AllIdle
           /\ Total(done_db[x].count_bins) = 2
           /\ (Tracked(x) \/ current_databases < max_databases))
          => (/\ Entries(x) = 1
              /\ Total(ReportedData(x).count_bins) = 2)

\* a backend that found its database untracked waits for the exclusive lock
\* while another backend has inserted that database
C2_Witness ==
    \E p \in Procs :
       /\ pc[p] = "relock"
       /\ loc[p].db_index = DB_NOT_FOUND
       /\ loc[p].current_dbs < current_databases
       /\ Tracked(MyDatabaseId[p])

\* C3: a lookup of oid by a backend (query_histogram(scale, oid)) finds the
\* index of the entry that holds oid, or DB_NOT_FOUND when no entry holds it,
\* whatever the backend looked up before.
C3_LookupFindsKey ==
    [][\A p \in Procs : \A oid \in Oids :
          GetDataDb(p, oid)
          => find_histogram_index(p, oid) = TrackedIndex(oid)]_vars

\* C4: once all record operations have returned, the global histogram holds
\* the counts and times of all of them, and the histogram of each tracked
\* database those of the record operations of its backends.
C4_CountsAllRecords ==
    AllIdle =>
       /\ GlobalData = done_global
       /\ \A k \in Oids : Tracked(k) => ReportedData(k) = done_db[k]

\* C5: reset_db(oid, no remove) of a tracked database zeroes the counts and
\* times reported for oid, stamps its histogram's last_reset with the time of
\* the call, and leaves version and the set of tracked databases unchanged.
C5_ResetInPlace ==
    [][\A p \in Procs : \A oid \in Oids :
          (Tracked(oid) /\ ResetDb(p, oid, FALSE))
          => (/\ ReportedData(oid)' = NoData
              /\ histograms'[TrackedIndex(oid) + 1].last_reset = clock'
              /\ version' = version
              /\ TrackedOids' = TrackedOids)]_vars

\* C6: reset_db(oid, remove) of a database that is not tracked finds nothing
\* (returns false) and leaves the histograms, the list, current_databases and
\* version unchanged.
C6_ResetUntracked ==
    [][\A p \in Procs : \A oid \in Oids : \A remove \in BOOLEAN :
          (~Tracked(oid) /\ ResetDb(p, oid, remove))
          => (/\ find_histogram_index(p, oid) = DB_NOT_FOUND
              /\ UNCHANGED <<histograms, databases, current_databases,
                             version>>)]_vars

\* C7: reset(remove) leaves no database tracked, current_databases 0, and
\* increments version; reset(no remove) leaves the list unchanged and
\* increments version.
C7_ResetAll ==
    [][\A p \in Procs :
          /\ Reset(p, TRUE) => (/\ current_databases' = 0
                                /\ TrackedOids' = {}
                                /\ version' = version + 1)
          /\ Reset(p, FALSE) => (/\ databases' = databases
                                 /\ current_databases' = current_databases
                                 /\ version' = version + 1)]_vars

\* C8: right after reset (with or without remove) at time now, the global
\* histogram and the histogram of every tracked database hold zero counts and
\* times and last_reset = now.
C8_ResetStampsAll ==
    [][\A p \in Procs : \A remove \in BOOLEAN :
          Reset(p, remove)
          => (/\ histograms'[0] = ResetHistogram(clock')
              /\ \A o \in Oids :
                    Tracked(o)' =>
                       histograms'[TrackedIndex(o)' + 1] = ResetHistogram(clock'))]_vars

\* C9: while the database of a backend is not tracked and the list is full, a
\* record operation of that backend adds to the global histogram only: no step
\* of it changes a per-database histogram, the list, current_databases or
\* version, and it returns right after the global histogram is updated.
C9_FullListGlobalOnly ==
    [][\A p \in Procs :
          (/\ ~Tracked(MyDatabaseId[p])
           /\ current_databases = max_databases
           /\ RecordStep(p))
          => (/\ DbHistograms' = DbHistograms
              /\ UNCHANGED <<databases, current_databases, version>>
              /\ \A d \in Durations :
                    RecordBegin(p, d) =>
                       /\ pc'[p] = "idle"
                       /\ GlobalData' =
                            AddData(GlobalData,
                                    query_bin(type, bins, step, d), d))]_vars

\* C10: with query_histogram.dynamic = false, SET of any of the six parameters
\* leaves the segment (its parameters, max_databases, the list,
\* current_databases, the histograms and version) unchanged.
C10_StaticSettersNoOp ==
    [][\A p \in Procs :
          (/\ ~dynamic
           /\ \/ \E n \in BinCounts : SetBinsCount(p, n)
              \/ \E w \in Steps : SetBinsWidth(p, w)
              \/ \E t \in Types : SetType(p, t)
              \/ \E pct \in SamplePcts : SetSample(p, pct)
              \/ \E u \in BOOLEAN : SetTrackUtility(p, u)
              \/ \E m \in 0..MaxDatabases : SetMaxDatabases(p, m))
          => UNCHANGED segvars]_vars

\* a backend of a static histogram has SET a parameter: its own variable
\* differs from the configuration while the segment holds data
C10_Witness ==
    /\ ~dynamic
    /\ \E p \in Procs : guc[p] # config
    /\ current_databases > 0
    /\ histograms[0] # ResetHistogram(0)

\* the global histogram and the histogram of every tracked database report
\* zero counts and times
AllZeroed ==
    /\ GlobalData = NoData
    /\ \A o \in TrackedOids : ReportedData(o) = NoData

\* what every assign hook does besides storing its value, in dynamic mode
SetterResets ==
    /\ AllZeroed'
    /\ TrackedOids' = TrackedOids
    /\ version' = version + 1

\* C11: with query_histogram.dynamic = true, SET of a parameter stores the new
\* value in the segment (a bin count above the cap of a logarithmic histogram
\* is stored as the cap), zeroes the counts and times of the global histogram
\* and of every tracked database's histogram, leaves the same databases
\* tracked and increments version by one.
C11_SetterResets ==
    [][\A p \in Procs :
          dynamic =>
             /\ \A n \in BinCounts :
                   SetBinsCount(p, n)
                   => (bins' = CapBins(type, n, step) /\ SetterResets)
             /\ \A w \in Steps :
                   SetBinsWidth(p, w) => (step' = w /\ SetterResets)
             /\ \A t \in Types :
                   SetType(p, t) => (type' = t /\ SetterResets)
             /\ \A pct \in SamplePcts :
                   SetSample(p, pct) => (sample_pct' = pct /\ SetterResets)
             /\ \A u \in BOOLEAN :
                   SetTrackUtility(p, u)
                   => (track_utility' = u /\ SetterResets)
             /\ \A m \in 0..MaxDatabases :
                   SetMaxDatabases(p, m)
                   => (max_databases' = m /\ SetterResets)]_vars

\* C11 as stated: the bin count setter stores the new value itself
C11_StoresNewValue ==
    [][\A p \in Procs : \A n \in BinCounts :
          (dynamic /\ SetBinsCount(p, n))
          => (bins' = n /\ SetterResets)]_vars

\* a backend has SET a bin count above the cap of the logarithmic histogram
\* while databases were tracked: the segment holds the cap, and no data
C11_Witness ==
    /\ dynamic
    /\ version = 1
    /\ type = HISTOGRAM_LOG
    /\ \E p \in Procs : guc[p].default_histogram_bins > MaxBinCount(step)
    /\ bins = MaxBinCount(step)
    /\ config.default_histogram_bins < bins
    /\ current_databases > 0
    /\ AllZeroed

\* SET of one of the six parameters by backend p
SetterStep(p) ==
    \/ \E n \in BinCounts : SetBinsCount(p, n)
    \/ \E w \in Steps : SetBinsWidth(p, w)
    \/ \E t \in Types : SetType(p, t)
    \/ \E pct \in SamplePcts : SetSample(p, pct)
    \/ \E u \in BOOLEAN : SetTrackUtility(p, u)
    \/ \E m \in 0..MaxDatabases : SetMaxDatabases(p, m)

\* C12: with query_histogram.dynamic = true, after SET of any of the six
\* parameters a logarithmic histogram has at most
\* ceil(log2(INT_MAX / step)) bins.
C12_LogBinsCapped ==
    [][\A p \in Procs :
          (dynamic /\ SetterStep(p))
          => (type' = HISTOGRAM_LOG => bins' <= MaxBinCount(step'))]_vars

\* C13: with query_histogram.dynamic = true (parameters possibly changed by
\* SET), a clean shutdown and the next startup with the same configuration
\* file and the dump file as written give a segment with the same type, bins,
\* step and sample_pct, the same list of databases (OIDs, histogram indexes,
\* current_databases) and the same counts, times and last_reset in the
\* global histogram and in that of each tracked database.
C13_DumpRoundTrip ==
    [][(dynamic /\ Restart(config, "none"))
       => (/\ type' = type
           /\ bins' = bins
           /\ step' = step
           /\ sample_pct' = sample_pct
           /\ current_databases' = current_databases
           /\ \A i \in 0..(current_databases - 1) :
                 databases'[i] = databases[i]
           /\ \A i \in 0..current_databases :
                 histograms'[i] = histograms[i])]_vars

\* the segment is as histogram_shmem_startup creates it from configuration
\* cfg: the configured parameters, no database tracked, every histogram zero
FreshSegment(cfg) ==
    /\ type = cfg.default_histogram_type
    /\ bins = cfg.default_histogram_bins
    /\ step = cfg.default_histogram_step
    /\ sample_pct = cfg.default_histogram_sample_pct
    /\ max_databases = cfg.max_database_histograms
    /\ version = 0
    /\ current_databases = 0
    /\ databases = EmptyDatabases(cfg.max_database_histograms)
    /\ histograms = EmptyHistograms(cfg.max_database_histograms)

\* C14: a startup (with whatever configuration) that finds the dump
\* file with a changed byte in the payload (the digest no longer matches) or
\* cut short (the payload cannot be read) completes, in either mode, and
\* leaves the segment as freshly initialised from that configuration.
C14_DamagedDumpRejected ==
    [][\A cfg \in ConfigEdits : \A damage \in Damages \ {"none"} :
          (config' = cfg /\ Restart(cfg, damage))
          => (/\ FreshSegment(cfg)'
              /\ \A p \in Procs : pc'[p] = "idle")]_vars

\* a dynamic server whose histograms had been reset by SET (last_reset > 0)
\* was restarted and holds none of it: the dump file was rejected
C14_Witness ==
    /\ dynamic
    /\ clock >= 1
    /\ ncalls = MaxCalls
    /\ FreshSegment(config)
    /\ max_databases > 0

\* the segment's type, bins, step and sample_pct are those of configuration
\* cfg
SameParameters(cfg) ==
    /\ type = cfg.default_histogram_type
    /\ bins = cfg.default_histogram_bins
    /\ step = cfg.default_histogram_step
    /\ sample_pct = cfg.default_histogram_sample_pct

\* the startup with configuration cfg has copied the list and the histograms
\* of the previous server into the new segment
DumpLoaded(cfg) ==
    /\ SameParameters(cfg)'
    /\ current_databases' = current_databases
    /\ \A i \in 0..(current_databases - 1) : databases'[i] = databases[i]
    /\ \A i \in 0..current_databases : histograms'[i] = histograms[i]

\* C15: with query_histogram.dynamic = false, a startup with configuration
\* cfg that finds the dump file as written copies it into the segment when
\* the file's type, bins, step and sample_pct equal the configured ones and
\* its current_databases is at most the configured max_databases; otherwise
\* it leaves the segment freshly initialised, no database tracked.
C15_StaticLoadCompatible ==
    [][\A cfg \in ConfigEdits :
          (~dynamic /\ config' = cfg /\ Restart(cfg, "none"))
          => IF SameParameters(cfg)
                /\ current_databases <= cfg.max_database_histograms
             THEN DumpLoaded(cfg)
             ELSE FreshSegment(cfg)']_vars

\* C15 as stated: the file is rejected unless its current_databases equals
\* the configured number as well
C15_StaticLoadIdentical ==
    [][\A cfg \in ConfigEdits :
          (/\ ~dynamic /\ config' = cfg /\ Restart(cfg, "none")
           /\ ~(/\ SameParameters(cfg)
                /\ current_databases = cfg.max_database_histograms))
          => FreshSegment(cfg)']_vars

\* a static server was started with a sample_pct no earlier server had: the
\* segment is fresh, with the new configuration
C15_Witness ==
    /\ ~dynamic
    /\ config.default_histogram_sample_pct # MaxSamplePct
    /\ max_databases > 0
    /\ FreshSegment(config)
    /\ ncalls = 1

\* C16: in every reachable state (after startup, with or without a dump
\* loaded, and after any record, reset, removal and SET, of max_databases
\* included) current_databases is at most max_databases.
C16_TrackedWithinMax == current_databases <= max_databases

\* C17: version never decreases, and it is left unchanged by every step of a
\* record operation for a database that is tracked or cannot be tracked (the
\* list being full), by reset_db(oid, no remove) and by the reset of the
\* global histogram alone.
C17_VersionOnShapeChange ==
    [][/\ version' >= version
       /\ \A p \in Procs :
             /\ ((Tracked(MyDatabaseId[p]) \/ current_databases >= max_databases)
                 /\ RecordStep(p))
                => version' = version
             /\ \A oid \in Oids : ResetDb(p, oid, FALSE) => version' = version
             /\ ResetGlobal(p) => version' = version]_vars

\* the rows of the query_histogram call backend p has just made
RowsOf(p) == user_fctx[p].rows

\* the rows report, for each bin i of histogram h, count and time c(i) and
\* t(i) times 100/pct, and the percentages of these among their totals
RowsReport(rows, h, pct) ==
    \A n \in DOMAIN rows :
       /\ rows[n].count * pct = 100 * h.count_bins[n - 1]
       /\ rows[n].time = Frac(100 * h.time_bins[n - 1], pct)
       /\ rows[n].count_pct =
             IF SumBins(h.count_bins, Len(rows) - 1) > 0
             THEN Frac(100 * h.count_bins[n - 1],
                       SumBins(h.count_bins, Len(rows) - 1))
             ELSE Frac(0, 1)
       /\ rows[n].time_pct =
             IF SumBins(h.time_bins, Len(rows) - 1) > 0
             THEN Frac(100 * h.time_bins[n - 1],
                       SumBins(h.time_bins, Len(rows) - 1))
             ELSE Frac(0, 1)

\* C18: query_histogram(scale = true) with sample_pct < 100 reports for every
\* bin the stored count and the stored time times 100/sample_pct (10 stored
\* at 25% is reported as 40), and percentages of the scaled values in their
\* totals; with scale = false or sample_pct = 100 it reports the stored
\* values.
C18_ScaledBySamplingRate ==
    [][\A p \in Procs : \A scale \in BOOLEAN :
          QueryHistogramGlobal(p, scale)
          => RowsReport(RowsOf(p)', histograms[0],
                        IF scale /\ sample_pct < 100 THEN sample_pct
                        ELSE 100)]_vars

\* the sum of the counts of rows[1..n]
RECURSIVE SumCounts(_, _)
SumCounts(rows, n) == IF n = 0 THEN 0 ELSE rows[n].count + SumCounts(rows, n - 1)

\* rows[n] is the row of bin n - 1 of histogram h, for each n in ascending
\* order: its count is that of the bin (scaled when asked), count_pct is
\* 100 * count / total of the counts of the rows (0 with total 0), time_pct
\* is 100 * time / total time of the bins (0 with total 0)
RowPerBin(rows, h, scale) ==
    \A n \in 1..Len(rows) :
       /\ rows[n].count =
             IF scale /\ sample_pct < 100
             THEN ScaleCount(h.count_bins[n - 1], sample_pct)
             ELSE h.count_bins[n - 1]
       /\ rows[n].count_pct =
             IF SumCounts(rows, Len(rows)) > 0
             THEN Frac(100 * rows[n].count, SumCounts(rows, Len(rows)))
             ELSE Frac(0, 1)
       /\ rows[n].time_pct =
             IF SumBins(h.time_bins, Len(rows) - 1) > 0
             THEN Frac(100 * h.time_bins[n - 1],
                       SumBins(h.time_bins, Len(rows) - 1))
             ELSE Frac(0, 1)

\* a query_histogram call of backend p that finds histogram h, with scale
QueryOf(p, h, scale) ==
    \/ h = histograms[0] /\ QueryHistogramGlobal(p, scale)
    \/ \E oid \in Oids :
          /\ find_histogram_index(p, oid) # DB_NOT_FOUND
          /\ h = histograms[find_histogram_index(p, oid) + 1]
          /\ QueryHistogramDb(p, scale, oid)

\* the histograms a query can find
FoundHistograms == {histograms[i] : i \in DOMAIN histograms}

\* C19: query_histogram of one histogram returns, with bins > 0, exactly
\* bins + 1 rows, one per bin 0..bins in ascending order, and with bins = 0
\* no row; count_pct is 100 * count / total_count (0 with total_count 0) and
\* time_pct is 100 * time / total_time (0 with total_time 0).
C19_RowPerBin ==
    [][\A p \in Procs : \A scale \in BOOLEAN : \A h \in FoundHistograms :
          QueryOf(p, h, scale)
          => (/\ Len(RowsOf(p)') = IF bins > 0 THEN bins + 1 ELSE 0
              /\ RowPerBin(RowsOf(p)', h, scale))]_vars

\* C19 as stated: bins + 1 rows for every bin count, 0 included
C19_RowPerBinFromZero ==
    [][\A p \in Procs : \A scale \in BOOLEAN : \A h \in FoundHistograms :
          QueryOf(p, h, scale)
          => (/\ Len(RowsOf(p)') = bins + 1
              /\ RowPerBin(RowsOf(p)', h, scale))]_vars

\* a backend has queried a histogram of HIST_BINS_MAX bins with queries in
\* several bins: HIST_BINS_MAX + 1 rows, more than one with a count
C19_Witness ==
    \E p \in Procs :
       /\ user_fctx[p].called
       /\ bins = HIST_BINS_MAX
       /\ Len(RowsOf(p)) = HIST_BINS_MAX + 1
       /\ \E m, n \in 1..Len(RowsOf(p)) :
             /\ m < n
             /\ RowsOf(p)[m].count > 0
             /\ RowsOf(p)[n].count > 0
             /\ RowsOf(p)[m].count_pct # RowsOf(p)[n].count_pct

Min(a, b) == IF a < b THEN a ELSE b

C21_BinInRange ==
    [][\A p \in Procs : \A d \in LongDurations :
          RecordLong(p, d)
          => (/\ Cardinality(QueryBins(type, bins, step, d)) = 1
              /\ \A b \in QueryBins(type, bins, step, d) :
                    /\ 0 <= b /\ b <= bins
                    /\ RawBin(type, step, d) >= bins => b = bins
                    /\ \A e \in LongDurations :
                          e <= d =>
                             \A a \in QueryBins(type, bins, step, e) :
                                a <= b)]_vars

\* C22: while the segment's bins is 0 no step of a record operation changes a
\* count or a time of the global histogram or of a per-database histogram,
\* whatever the interleaving with backends that SET bin_count.
C22_DisabledRecordsNothing ==
    [][\A p \in Procs :
          (bins = 0 /\ RecordStep(p))
          => \A i \in DOMAIN histograms :
                DataOf(histograms'[i]) = DataOf(histograms[i])]_vars

\* C23: query_histogram_get_reset_timestamp(oid) returns, for a tracked
\* database, the last_reset of that database's own histogram, and NULL for a
\* database that is not tracked; query_histogram_get_reset_timestamp(NULL)
\* returns the last_reset of the global histogram.
C23_LastResetOfKey ==
    [][\A p \in Procs :
          /\ \A oid \in Oids :
                GetResetDb(p, oid)
                => IF Tracked(oid)
                   THEN ResetTimestampDb(p, oid) =
                           [isnull |-> FALSE,
                            value |-> histograms[TrackedIndex(oid) + 1].last_reset]
                   ELSE ResetTimestampDb(p, oid).isnull
          /\ GetResetGlobal(p)
             => ResetTimestampGlobal =
                   [isnull |-> FALSE, value |-> histograms[0].last_reset]]_vars

\* the segment, the locks, the lookup caches and the history are as before
NothingTouched ==
    UNCHANGED <<segment_info, max_database_histograms, segvars, lockvars,
                cachevars, histvars, user_fctx, pc, loc, clock>>

\* C24: while segment_info is NULL, a call of a reset function, of
\* query_histogram_get_version, of query_histogram_get_reset_timestamp or of
\* query_histogram reports ERRCODE_OBJECT_NOT_IN_PREREQUISITE_STATE, takes no
\* lock and changes nothing; an assign hook (run by the postmaster in
\* _PG_init) reports no error, takes no lock and changes nothing but the
\* process's own GUC variable.
C24_NoSegmentNoEffect ==
    [][\A p \in Procs :
          /\ PrerequisiteError(p)
             => (/\ sqlerrcode'[p] = ERRCODE_OBJECT_NOT_IN_PREREQUISITE_STATE
                 /\ NothingTouched
                 /\ UNCHANGED guc)
          /\ (segment_info = NULL /\ HookRuns(p) /\ SetterStep(p))
             => (/\ sqlerrcode'[p] = ERRCODE_SUCCESSFUL_COMPLETION
                 /\ NothingTouched)]_vars

\* C24 as stated: an assign hook called while segment_info is NULL reports
\* the error as well
C24_SettersReportError ==
    [][\A p \in Procs :
          (/\ segment_info = NULL
           /\ PrerequisiteError(p) \/ (HookRuns(p) /\ SetterStep(p)))
          => (/\ sqlerrcode'[p] = ERRCODE_OBJECT_NOT_IN_PREREQUISITE_STATE
              /\ NothingTouched)]_vars

\* a backend of a server without the segment has called a function and got
\* the error, after another call was made
C24_Witness ==
    /\ segment_info = NULL
    /\ ncalls = MaxCalls
    /\ \E p \in Procs :
          sqlerrcode[p] = ERRCODE_OBJECT_NOT_IN_PREREQUISITE_STATE

\* backend p is inside the update of the bins of a per-database histogram:
\* it has loaded a bin and has not yet stored the time
InUpdate(p) == pc[p] \in {"st_count", "ld_time", "st_time"}

\* C25: the bins of a histogram are updated under mutual exclusion: no two
\* backends are at the same time inside the update of the same histogram
\* (the global histogram is updated inside one exclusive hold of its lock).
C25_ExclusiveUpdate ==
    \A p, q \in Procs :
       (p # q /\ InUpdate(p) /\ InUpdate(q))
       => HistogramIndex(p) # HistogramIndex(q)

\* the counts and times of a histogram after the completed record operations
\* (done), or after these and the one a backend is inside
WholeStates(done) ==
    {done} \cup {AddData(done, loc[q].bin, loc[q].duration) :
                   q \in {r \in Procs : pc[r] # "idle"}}

\* the rows show the counts and times data, unscaled
RowsShow(rows, data) ==
    \A n \in 1..Len(rows) :
       /\ rows[n].count = data.count_bins[n - 1]
       /\ rows[n].time = Frac(data.time_bins[n - 1], 1)

\* C26: whatever the interleaving with record operations, the counts and
\* times query_histogram copies, of the global histogram or of a tracked
\* database's, are those after a whole number of record operations: after
\* the completed ones, or after these and the one in progress.
C26_CopyNotTorn ==
    [][\A p \in Procs :
          /\ QueryHistogramGlobal(p, FALSE)
             => \E data \in WholeStates(done_global) :
                   RowsShow(RowsOf(p)', data)
          /\ \A oid \in Oids :
                (Tracked(oid) /\ QueryHistogramDb(p, FALSE, oid))
                => \E data \in WholeStates(done_db[oid]) :
                      RowsShow(RowsOf(p)', data)]_vars

\* C27: reset_db(oid, remove) that finds the database leaves the histogram
\* that became free, histograms[current_databases] with current_databases as
\* before the call, with zero counts and times (the histogram the next
\* inserted database gets), also when the database removed was the only one
\* or the last of the list.
C27_FreedSlotZeroed ==
    [][\A p \in Procs : \A oid \in Oids :
          (/\ find_histogram_index(p, oid) # DB_NOT_FOUND
           /\ current_databases > 0
           /\ ResetDb(p, oid, TRUE))
          => DataOf(histograms'[current_databases]) = NoData]_vars

\* C28: in every reachable state, whatever the interleaving of record
\* operations with removals and resets, no database OID is held by two of the
\* entries 0..current_databases-1 of the list.
C28_NoKeyTwice == \A x \in Oids : Entries(x) <= 1

\* C29: in every reachable state, every entry i below current_databases of
\* the list of databases stores histogram index i + 1: the histogram add_query
\* writes for the entry (histogram_idx) is the one histogram_get_data_db
\* reads for it (db_index + 1).
C29_SlotOfPosition ==
    \A i \in 0..(current_databases - 1) : databases[i].histogram_idx = i + 1

\* the removal of the first of two databases moved the OID of the second to
\* position 0, whose entry still stores histogram index 1
C29_Witness ==
    /\ max_database_histograms >= 2
    /\ current_databases = 1
    /\ databases[0].databaseoid # InvalidOid
    /\ databases[0].databaseoid = databases[1].databaseoid
    /\ databases[0].histogram_idx = 1

\* C30: a step of a record operation of a backend of database K leaves the
\* counts and times of the histogram of every other tracked database as they
\* were, whatever the backend looked up before.
C30_RecordKeepsOtherKeys ==
    [][\A p \in Procs : \A k \in Oids :
          (/\ k # MyDatabaseId[p]
           /\ Tracked(k)
           /\ RecordStep(p))
          => ReportedData(k)' = ReportedData(k)]_vars

\* C31: reset_db of a tracked database, with or without removal, leaves the
\* counts and times of the global histogram and those reported for every
\* other tracked database as they were.
C31_ResetDbKeepsOthers ==
    [][\A p \in Procs : \A oid \in Oids : \A remove \in BOOLEAN :
          (Tracked(oid) /\ ResetDb(p, oid, remove))
          => /\ GlobalData' = GlobalData
             /\ \A k \in Oids \ {oid} :
                   Tracked(k) => ReportedData(k)' = ReportedData(k)]_vars

\* C32: a backend that is in no call (every call it made has returned)
\* holds no lock: no shared hold of the segment lock, released or not.
C32_LockBalance ==
    \A p \in Procs :
       pc[p] = "idle" => (lock_shared[p] = 0 /\ ~lock_leaked[p])

\* C33: with fair lock scheduling, every started record operation returns:
\* a backend inside add_query, waiting for the segment lock or between two
\* of its steps, is eventually in no call.
C33_EveryCallReturns ==
    \A p \in Procs : (pc[p] # "idle") ~> (pc[p] = "idle")

\* C34: no reset of all histograms and no insert of a database writes an
\* element of databases[] at an index >= the allocated capacity
\* (max_database_histograms) or a histogram at an index > that capacity.
C34_WithinArrays ==
    [][\A p \in Procs :
          /\ \A remove \in BOOLEAN :
                Reset(p, remove)
                => /\ ResetDatabaseWrites(current_databases, remove)
                         \subseteq 0..(max_database_histograms - 1)
                   /\ ResetHistogramWrites(current_databases)
                         \subseteq 0..max_database_histograms
          /\ RecordRelock(p)
                => InsertWrites(p) \subseteq 0..(max_database_histograms - 1)]_vars

\* C35: in every reachable state the global histogram and the histogram of
\* every tracked database hold no count and no time in the bins above the
\* present number of bins.
C35_NothingAboveBins ==
    \A i \in 0..current_databases : \A b \in Bins :
       b > bins => (histograms[i].count_bins[b] = 0
                    /\ histograms[i].time_bins[b] = 0)

\* the sum, over the entries 0..i of the list of databases, of the count of
\* bin b in the histogram of the entry
RECURSIVE KeysCount(_, _)
KeysCount(i, b) ==
    IF i < 0 THEN 0
    ELSE histograms[databases[i].histogram_idx].count_bins[b]
         + KeysCount(i - 1, b)

\* C36: with no reset, removal or change of a parameter, in every state and
\* for every bin the count of the global histogram is at least the sum of the
\* counts of the histograms of the tracked databases.
C36_GlobalCoversKeys ==
    \A b \in Bins :
       histograms[0].count_bins[b] >= KeysCount(current_databases - 1, b)

\* two databases hold queries in the same bin, recorded since startup, and
\* the global histogram holds exactly their sum
C36_Witness ==
    /\ current_databases >= 2
    /\ \E b \in Bins :
          /\ histograms[1].count_bins[b] > 1
          /\ histograms[2].count_bins[b] > 1
          /\ histograms[0].count_bins[b] = KeysCount(current_databases - 1, b)

\* C37: for a linear and for a logarithmic histogram, a duration d that a
\* record operation adds to a bin i below the last one lies within the bounds
\* query_histogram returns for bin i: bin_from <= d < bin_to.
C37_BoundsHoldDuration ==
    [][\A p \in Procs : \A d \in LongDurations : \A i \in 0..(bins - 1) :
          (/\ RecordLong(p, d)
           /\ histograms'[0].count_bins[i] = histograms[0].count_bins[i] + 1)
          => LET row == HistogramRows(HistogramData(histograms'[0], FALSE))[i + 1]
             IN  row.bin_from <= d /\ d < row.bin_to]_vars

\* the rows for the histogram at index j among the rows of query_histograms,
\* without the column databaseoid
RowsForHistogram(rows, j) ==
    [n \in 1..(bins + 1) |->
        LET row == rows[(current_databases - j) * (bins + 1) + n]
        IN  [bin_from |-> row.bin_from, bin_to |-> row.bin_to,
             count |-> row.count, count_pct |-> row.count_pct,
             time |-> row.time, time_pct |-> row.time_pct]]

\* C38: for the global histogram and for the histogram of every tracked
\* database, linear or logarithmic, the rows query_histograms returns for it
\* are the rows query_histogram returns for it in the same state.
C38_AllKeysAsSingleKey ==
    [][\A p \in Procs : \A scale \in BOOLEAN :
          (bins > 0 /\ QueryHistograms(p, scale))
          => /\ Len(RowsOf(p)') = (bins + 1) * (current_databases + 1)
             /\ \A j \in 0..current_databases :
                   RowsForHistogram(RowsOf(p)', j)
                      = HistogramRows(HistogramData(histograms[j], scale))]_vars

\* a call of query_histogram or of query_histograms by backend p
QueryCall(p, scale) ==
    \/ QueryHistogramGlobal(p, scale)
    \/ \E oid \in Oids : QueryHistogramDb(p, scale, oid)
    \/ QueryHistograms(p, scale)

\* C39: for a logarithmic histogram with at most ceil(log2(INT_MAX / step))
\* bins, every bin_from and every bin_to that is not NULL, in the rows of
\* query_histogram and of query_histograms, is at most INT_MAX (the values
\* are those computed before the conversion to the 32-bit column).
C39_BoundsFitInt ==
    [][\A p \in Procs : \A scale \in BOOLEAN :
          (/\ type = HISTOGRAM_LOG
           /\ bins <= MaxBinCount(step)
           /\ QueryCall(p, scale))
          => \A n \in DOMAIN RowsOf(p)' :
                /\ RowsOf(p)'[n].bin_from <= INT_MAX
                /\ RowsOf(p)'[n].bin_to # NullDatum
                      => RowsOf(p)'[n].bin_to <= INT_MAX]_vars

====
